---- MODULE Spec2Model ----
(***************************************************************************)
(* Flight sun tracker: a model of calculateSunPositionForFlight            *)
(* (src/src/components/GlobeDisplay.tsx, lines 530-734).                   *)
(*                                                                         *)
(* Time is counted in whole minutes from flightDetails.departureTime, so   *)
(* the code's millisecond thresholds 15*60*1000 and 10*60*1000 are 15 and  *)
(* 10.  Angles are whole degrees.  The values returned by the libraries    *)
(* (geolib bearing, suncalc position and times) are inputs of the model,   *)
(* drawn from small sets.  Rational numbers (progress, confidence) are     *)
(* records [num, den] with den > 0.                                        *)
(***************************************************************************)
EXTENDS Integers, Sequences, FiniteSets, TLC

VARIABLES
    flightDetails,   \* the argument: [departure, arrival, durationMinutes]
    pc,              \* position inside calculateSunPositionForFlight
    flightBearing,   \* getRhumbLineBearing(departureCoords, arrivalCoords)
    bearingIsNaN,    \* that bearing is NaN (flightBearing is then unused)
    i,               \* loop index of Step 5
    flightPath,      \* FlightPathPoint[]
    sunEvents,       \* raw SunEvent[]
    sunVisibleCount,
    leftSideCount,
    rightSideCount,
    observed,        \* what getPosition/getTimes returned at each sample
    caught,          \* the exception the catch clause received, if any
    result,          \* what the call produced
    request,         \* POST /api/recommendation: the request received
    apiPc,           \* POST: "idle", "received" or "responded"
    response,        \* POST: the NextResponse returned
    calculatorCalls, \* POST: the FlightDetails passed to the calculator
    state,           \* FlightSunTracker: the state of useActionState
    isPending,       \* FlightSunTracker: a submission is being processed
    prevState,       \* getFlightRecommendation: the state passed in
    rawData,         \* getFlightRecommendation: the submitted form fields
    actionPc,        \* getFlightRecommendation: "idle", "running", "fetching", "returned"
    submissions,     \* FlightSunTracker: number of submissions so far
    formData,        \* FlightForm: the four field values
    fieldErrors,     \* FlightForm: the message shown under each field
    touched,         \* FlightForm: the fields that were blurred or submitted
    lastEvent,       \* FlightForm: the last event handled
    inputValue,      \* AutocompleteInput: the text in the input
    isSelected,      \* AutocompleteInput: an airport has been selected
    showSuggestions, \* AutocompleteInput: the list is rendered
    highlightedIndex, \* AutocompleteInput: 0-based, -1 for none
    filteredAirports, \* AutocompleteInput: the list, as IATA codes
    excludeValue,    \* AutocompleteInput: the prop of that name
    focused,         \* AutocompleteInput: the input has the focus
    blurTimers,      \* AutocompleteInput: pending 150 ms timeouts of handleBlur
    clock,           \* GlobeDisplay: Date.now(), in seconds
    globeReady,      \* GlobeDisplay: state of that name
    effectRun,       \* GlobeDisplay: the live run of the animation effect (0: none)
    startTime,       \* GlobeDisplay: startTime of each run of the effect
    timers,          \* GlobeDisplay: pending setTimeout callbacks
    frames,          \* GlobeDisplay: pending requestAnimationFrame callbacks
    animationRef,    \* GlobeDisplay: animationRef.current, a frame id (0: unset)
    nextFrameId,     \* GlobeDisplay: the id requestAnimationFrame returns next
    planePosition,   \* GlobeDisplay: state of that name
    animatedArc,     \* GlobeDisplay: state of that name
    passes           \* GlobeDisplay: what each pass of the animation showed

coreVars == <<flightDetails, pc, flightBearing, bearingIsNaN, i, flightPath,
              sunEvents, sunVisibleCount, leftSideCount, rightSideCount,
              observed, caught, result>>

apiVars == <<request, apiPc, response, calculatorCalls>>

actionVars == <<state, isPending, prevState, rawData, actionPc, submissions>>

formVars == <<formData, fieldErrors, touched, lastEvent>>

acVars == <<inputValue, isSelected, showSuggestions, highlightedIndex,
            filteredAirports, excludeValue, focused, blurTimers>>

animVars == <<clock, globeReady, effectRun, startTime, timers, frames,
              animationRef, nextFrameId, planePosition, animatedArc, passes>>

\* the state of the user interface
uiVars == <<actionVars, formVars, acVars, animVars>>

\* what a step of getFlightRecommendation leaves alone besides the route
outsideAction == <<coreVars, formVars, acVars, animVars>>

\* what an event of FlightForm leaves alone
outsideForm == <<coreVars, apiVars, actionVars, acVars, animVars>>

vars == <<coreVars, apiVars, uiVars>>

-----------------------------------------------------------------------------
(* Bounds of the model *)

\* Flights of 1..MaxDuration minutes are sampled under every sun observation.
MaxDuration == 11

\* One longer flight is sampled in full daylight only (no sunrise or sunset
\* near any sample), which lets the side tallies reach 6 against 5.
DaylightDuration == 50

-----------------------------------------------------------------------------
(* Numbers and dates *)

Min(a, b) == IF a < b THEN a ELSE b

Abs(x) == IF x < 0 THEN -x ELSE x

\* Math.ceil(a / b) for a >= 0, b > 0
Ceil(a, b) == (a + b - 1) \div b

\* A Date: an Invalid Date has getTime() = NaN
Instant(t) == [nan |-> FALSE, t |-> t]

NaT == [nan |-> TRUE, t |-> 0]

\* a rational number n/d
Frac(n, d) == [num |-> n, den |-> d]

FracLess(a, b) == a.num * b.den < b.num * a.den

FracEq(a, b) == a.num * b.den = b.num * a.den

FracMin(a, b) == IF FracLess(a, b) THEN a ELSE b

-----------------------------------------------------------------------------
(* Step 1: airport lookup *)

\* the IATA codes of the records in airports.json used here
Airports == {"JFK", "LHR"}

\* airports.find(airport => airport.iata === code) found a record
FindAirport(code) == code \in Airports

\* the arguments a caller passes: the codes are matched exactly as given
FlightCodes ==
    { <<"JFK", "LHR">>, <<"JFK", "ZZZ">>, <<"ZZZ", "LHR">>,
      <<"ZZY", "ZZZ">>, <<"jfk", "LHR">> }

AirportNotFoundDeparture(fd) ==
    [kind |-> "Error", message |-> "Airport not found", code |-> fd.departure]

\* the message of the Error thrown at line 538
AirportNotFound(fd) ==
    [kind |-> "Error", message |-> "Airport not found",
     code |-> IF ~FindAirport(fd.departure) THEN fd.departure ELSE fd.arrival]

-----------------------------------------------------------------------------
(* Step 4/5: sampling *)

IntervalMinutes == 5

NumIntervalsFloor(durationMinutes) == durationMinutes \div IntervalMinutes

NumIntervals(durationMinutes) == Ceil(durationMinutes, IntervalMinutes)

TimeOffsetUnclamped(idx, durationMinutes) == idx * IntervalMinutes

TimeOffsetMinutes(idx, durationMinutes) ==
    Min(idx * IntervalMinutes, durationMinutes)

SunVisibleOrHorizon(elevation) == elevation >= 0

SunVisibleTwilight(elevation) == elevation > -5

SunVisible(elevation) == elevation > 0

AboveHorizonUnlessBelow(obs) == obs.nan \/ obs.elevation > 0

\* sunElevationDegrees > 0 on what getPosition returned: false on NaN
AboveHorizon(obs) == ~obs.nan /\ SunVisible(obs.elevation)

AzimuthDiffNoWrap(sunAzimuthDegrees, bearing) == sunAzimuthDegrees - bearing

AzimuthDiff(sunAzimuthDegrees, bearing) ==
    LET d0 == sunAzimuthDegrees - bearing
        d1 == IF d0 < 0 THEN d0 + 360 ELSE d0
    IN  IF d1 > 360 THEN d1 - 360 ELSE d1

SideOf(azimuthDiff) ==
    IF azimuthDiff > 0 /\ azimuthDiff < 180 THEN "right" ELSE "left"

ViewingSide(sunAzimuthDegrees, bearing) ==
    SideOf(AzimuthDiff(sunAzimuthDegrees, bearing))

NearWindowMinutes == 15

IsNearNaNAsZero(currentTime, instant) ==
    Abs(currentTime - instant.t) < NearWindowMinutes

IsNearInclusive(currentTime, instant) ==
    ~instant.nan /\ Abs(currentTime - instant.t) <= NearWindowMinutes

\* Math.abs(currentTimeMs - instant.getTime()) < 15 * 60 * 1000 (false on NaN)
IsNear(currentTime, instant) ==
    ~instant.nan /\ Abs(currentTime - instant.t) < NearWindowMinutes

\* isNearSunrise ? 'sunrise' : 'sunset'
EventType(isNearSunrise, isNearSunset) ==
    IF isNearSunrise THEN "sunrise" ELSE "sunset"

\* getDistance(departureCoords, arrivalCoords), in meters (line 546)
GetDistance(fd) == IF fd.departure = fd.arrival THEN 0 ELSE 5540000

\* computeDestinationPoint(departureCoords, totalDistance * progress,
\* flightBearing) at lines 567-572, named by its arguments; NaN coordinates
\* when the bearing is NaN
CurrentPosition(timeOffsetMinutes) ==
    [from |-> flightDetails.departure,
     distance |-> Frac(GetDistance(flightDetails) * timeOffsetMinutes,
                       flightDetails.durationMinutes),
     bearing |-> flightBearing,
     nan |-> bearingIsNaN]

RawEventsAtBoth(currentTime, obs, side) ==
    LET event(type) == [type |-> type,
                        time |-> currentTime,
                        location |-> CurrentPosition(currentTime),
                        sunAzimuth |-> obs.azimuth,
                        aircraftBearing |-> flightBearing,
                        viewingSide |-> side,
                        elevation |-> obs.elevation]
    IN  (IF ~obs.sunrise.nan /\ Abs(currentTime - obs.sunrise.t) < 15
         THEN << event("sunrise") >> ELSE << >>)
        \o (IF ~obs.sunset.nan /\ Abs(currentTime - obs.sunset.t) < 15
            THEN << event("sunset") >> ELSE << >>)

\* lines 606-616: the raw events one visible sample pushes
RawEventsAt(currentTime, obs, side) ==
    LET isNearSunrise == IsNear(currentTime, obs.sunrise)
        isNearSunset  == IsNear(currentTime, obs.sunset)
    IN  IF (isNearSunrise \/ isNearSunset) /\ obs.elevation > -5
        THEN << [type |-> EventType(isNearSunrise, isNearSunset),
                 time |-> currentTime,
                 location |-> CurrentPosition(currentTime),
                 sunAzimuth |-> obs.azimuth,
                 aircraftBearing |-> flightBearing,
                 viewingSide |-> side,
                 elevation |-> obs.elevation] >>
        ELSE << >>

-----------------------------------------------------------------------------
(* What the libraries return *)

\* getRhumbLineBearing, degrees in [0, 360)
Bearings == {100, 350}

\* getPosition + getTimes at a sample taken at currentTime: sun azimuth
\* (degrees, [0, 360)), elevation (degrees), that day's sunrise and sunset.
\* Far is a distance in minutes well outside both windows.
Far == 600

\* getTimes: the sunrise and sunset instants, either of which may be an
\* Invalid Date; the 15-minute boundary is hit exactly by the third pair
SunTimesAround(t) ==
    { <<NaT, NaT>>,                                   \* polar day
      <<Instant(t - 14), Instant(t + Far)>>,          \* just after sunrise
      <<Instant(t - 15), Instant(t + Far)>>,          \* 15 min after sunrise
      <<Instant(t - Far), Instant(t + 14)>>,          \* just before sunset
      <<Instant(t - 10), Instant(t + 10)>>,           \* a 20-minute day
      <<NaT, Instant(t + 14)>> }                      \* sunset, no sunrise

\* sun at or below the horizon: getTimes is not called (line 587)
DarkObs(t) ==
    { [azimuth |-> 10, elevation |-> e, nan |-> FALSE,
       sunrise |-> Instant(t + Far), sunset |-> Instant(t - Far)] : e \in {-4, 0} }

\* sun up, far from sunrise and sunset, on either side of the aircraft
DaylightObs(t) ==
    { [azimuth |-> az, elevation |-> 3, nan |-> FALSE,
       sunrise |-> Instant(t - Far), sunset |-> Instant(t + Far)] : az \in {100, 190} }

\* sun up, on either side of the aircraft, under each pair of solar times
TwilightObs(t) ==
    { [azimuth |-> az, elevation |-> 1, nan |-> FALSE,
       sunrise |-> st[1], sunset |-> st[2]] :
        az \in {100, 190}, st \in SunTimesAround(t) }

\* a NaN bearing makes computeDestinationPoint (line 568) return NaN
\* coordinates, and getPosition (line 578) a NaN azimuth and elevation
NaNObs(t) ==
    { [azimuth |-> 0, elevation |-> 0, nan |-> TRUE,
       sunrise |-> NaT, sunset |-> NaT] }

\* the observations a sample of a flight can meet: all of them on the short
\* flights, daylight ones on the long flight
SunObs(durationMinutes, t) ==
    IF bearingIsNaN THEN NaNObs(t)
    ELSE IF durationMinutes <= MaxDuration
    THEN DarkObs(t) \cup TwilightObs(t)
    ELSE DaylightObs(t)

-----------------------------------------------------------------------------
(* Step 6: deduplication, recommendation, summary *)

DedupWindowMinutes == 10

SameWindowShort(e, event) ==
    e.type = event.type /\ Abs(e.time - event.time) < IntervalMinutes

\* the predicate of findIndex at lines 641-644
SameWindow(e, event) ==
    e.type = event.type /\ Abs(e.time - event.time) < DedupWindowMinutes

\* self.findIndex(e => SameWindow(e, event)), 1-based; event is in self
FindIndex(self, event) ==
    CHOOSE k \in 1..Len(self) :
        /\ SameWindow(self[k], event)
        /\ \A j \in 1..(k - 1) : ~SameWindow(self[j], event)

RECURSIVE FilterFrom(_, _)
FilterFrom(self, k) ==
    IF k > Len(self) THEN << >>
    ELSE (IF k = FindIndex(self, self[k]) THEN << self[k] >> ELSE << >>)
         \o FilterFrom(self, k + 1)

\* a filter that compares an event with the events kept so far only
RECURSIVE KeepAmongKept(_, _, _)
KeepAmongKept(self, k, kept) ==
    IF k > Len(self) THEN kept
    ELSE IF \E j \in 1..Len(kept) : SameWindow(kept[j], self[k])
         THEN KeepAmongKept(self, k + 1, kept)
         ELSE KeepAmongKept(self, k + 1, Append(kept, self[k]))

UniqueEventsAmongKept(self) == KeepAmongKept(self, 1, << >>)

\* sunEvents.filter((event, index, self) => index === self.findIndex(...))
UniqueEvents(self) == FilterFrom(self, 1)

CountSideAll(events, side) == Len(events)

\* events.filter(e => e.viewingSide === side).length
CountSide(events, side) ==
    Cardinality({k \in 1..Len(events) : events[k].viewingSide = side})

CountTypeAll(events, type) == Len(events)

\* events.filter(e => e.type === type).length
CountType(events, type) ==
    Cardinality({k \in 1..Len(events) : events[k].type = type})

EventConfidenceUncapped(count) == Frac(60 + (count * 15), 1)

\* Math.min(95, 60 + (count * 15))
EventConfidence(count) == Frac(Min(95, 60 + (count * 15)), 1)

DominatesPlain(a, b) == a > b

\* a > b * 1.2
Dominates(a, b) == 5 * a > 6 * b

\* Math.min(80, 50 + (sideCount / visibleCount * 30))
ExposureConfidence(sideCount, visibleCount) ==
    FracMin(Frac(80, 1), Frac(50 * visibleCount + 30 * sideCount, visibleCount))

DefaultConfidenceZero == Frac(0, 1)

\* let confidence = 50
DefaultConfidence == Frac(50, 1)

\* lines 635-685: recommendation, confidence and the head of the description
Recommend(uniqueEvents, visibleCount, leftCount, rightCount) ==
    LET leftEvents  == CountSide(uniqueEvents, "left")
        rightEvents == CountSide(uniqueEvents, "right")
    IN  IF Len(uniqueEvents) > 0
        THEN IF leftEvents > rightEvents
             THEN [recommendation |-> "left",
                   confidence |-> EventConfidence(leftEvents),
                   description |-> "left side events"]
             ELSE IF rightEvents > leftEvents
             THEN [recommendation |-> "right",
                   confidence |-> EventConfidence(rightEvents),
                   description |-> "right side events"]
             ELSE [recommendation |-> "either",
                   confidence |-> Frac(75, 1),
                   description |-> "events on both sides"]
        ELSE IF visibleCount > 0 /\ Dominates(leftCount, rightCount)
             THEN [recommendation |-> "left",
                   confidence |-> ExposureConfidence(leftCount, visibleCount),
                   description |-> "left side exposure"]
        ELSE IF visibleCount > 0 /\ Dominates(rightCount, leftCount)
             THEN [recommendation |-> "right",
                   confidence |-> ExposureConfidence(rightCount, visibleCount),
                   description |-> "right side exposure"]
        ELSE [recommendation |-> "either",
              confidence |-> DefaultConfidence,
              description |-> "no events"]


AverageSunVisibilityFraction(visibleCount, points) ==
    IF points > 0 THEN Frac(visibleCount, points) ELSE Frac(0, 1)

\* flightPath.length > 0 ? (sunVisibleCount / flightPath.length) * 100 : 0
AverageSunVisibility(visibleCount, points) ==
    IF points > 0 THEN Frac(visibleCount * 100, points) ELSE Frac(0, 1)

\* lines 687-710: the value returned by the try block
SuccessResult(fd, path, rawEvents, visibleCount, leftCount, rightCount) ==
    LET uniqueEvents == UniqueEvents(rawEvents)
        rec == Recommend(uniqueEvents, visibleCount, leftCount, rightCount)
    IN  [kind |-> "returned",
         recommendation |-> rec.recommendation,
         confidence |-> rec.confidence,
         description |-> [text |-> rec.description, code |-> ""],
         events |-> uniqueEvents,
         departure |-> [iata |-> fd.departure, name |-> "found"],
         arrival |-> [iata |-> fd.arrival, name |-> "found"],
         flightPath |-> path,
         totalDistance |-> GetDistance(fd),
         totalDuration |-> fd.durationMinutes,
         summary |->
            [totalSunriseEvents |-> CountType(uniqueEvents, "sunrise"),
             totalSunsetEvents |-> CountType(uniqueEvents, "sunset"),
             averageSunVisibility |-> AverageSunVisibility(visibleCount, Len(path)),
             bestViewingSide |-> rec.recommendation]]

ErrorTotalDurationZero(fd) == 0

\* totalDuration: flightDetails.durationMinutes (line 724)
ErrorTotalDuration(fd) == fd.durationMinutes

ErrorResultRethrow(fd, error) == [kind |-> "thrown", error |-> error]

\* lines 712-733: the value returned by the catch clause
ErrorResult(fd, error) ==
    [kind |-> "returned",
     recommendation |-> "either",
     confidence |-> Frac(0, 1),
     description |->
        IF error.kind = "Error"
        THEN [text |-> error.message, code |-> error.code]
        ELSE [text |-> "Unknown error", code |-> ""],
     events |-> << >>,
     departure |-> [iata |-> fd.departure, name |-> "Unknown"],
     arrival |-> [iata |-> fd.arrival, name |-> "Unknown"],
     flightPath |-> << >>,
     totalDistance |-> 0,
     totalDuration |-> ErrorTotalDuration(fd),
     summary |->
        [totalSunriseEvents |-> 0,
         totalSunsetEvents |-> 0,
         averageSunVisibility |-> Frac(0, 1),
         bestViewingSide |-> "either"]]

-----------------------------------------------------------------------------
(* The call as a state machine *)

NoError == [kind |-> "none", message |-> "", code |-> ""]

Pending == [kind |-> "pending"]

Durations == (1..MaxDuration) \cup {DaylightDuration}

\* no request is being served
ApiIdle ==
    /\ request = [json |-> "none"]
    /\ apiPc = "idle"
    /\ response = [status |-> 0]
    /\ calculatorCalls = << >>

Undefined == [t |-> "undefined"]

\* initialState of FlightSunTracker (page.tsx, lines 188-193)
InitialState ==
    [success |-> FALSE, message |-> Undefined, data |-> Undefined,
     errors |-> Undefined]

\* no form has been submitted
ActionIdle ==
    /\ state = InitialState
    /\ isPending = FALSE
    /\ prevState = Undefined
    /\ rawData = Undefined
    /\ actionPc = "idle"
    /\ submissions = 0

NoFieldErrors ==
    [sourceCity |-> "", destinationCity |-> "", departureTime |-> "",
     flightDuration |-> ""]

\* FlightForm as first rendered (FlightForm.tsx, lines 167-176)
FormIdle ==
    /\ formData = [sourceCity |-> [t |-> "string", chars |-> << >>],
                   destinationCity |-> [t |-> "string", chars |-> << >>],
                   departureTime |-> [t |-> "string", chars |-> <<"T">>,
                                      date |-> [nan |-> FALSE, t |-> 0]],
                   flightDuration |-> [t |-> "string", shape |-> "empty",
                                       hours |-> 0, minutes |-> 0]]
    /\ fieldErrors = NoFieldErrors
    /\ touched = {}
    /\ lastEvent = [type |-> "none", defaultPrevented |-> FALSE]

\* AutocompleteInput as first rendered (AutocompleteInput.tsx, lines 106-110)
AcIdle ==
    /\ inputValue = << >>
    /\ isSelected = FALSE
    /\ showSuggestions = FALSE
    /\ highlightedIndex = -1
    /\ filteredAirports = << >>
    /\ excludeValue = << >>
    /\ focused = FALSE
    /\ blurTimers = 0

\* GlobeDisplay before the globe is ready (GlobeDisplay.tsx, lines 163-164)
AnimIdle ==
    /\ clock = 0
    /\ globeReady = FALSE
    /\ effectRun = 0
    /\ startTime = << >>
    /\ timers = {}
    /\ frames = {}
    /\ animationRef = 0
    /\ nextFrameId = 1
    /\ planePosition = [t |-> "null"]
    /\ animatedArc = [t |-> "null"]
    /\ passes = << >>

UiIdle == ActionIdle /\ FormIdle /\ AcIdle /\ AnimIdle

\* calculateSunPositionForFlight is not running
CoreIdle ==
    /\ flightDetails = [departure |-> "", arrival |-> "", durationMinutes |-> 0]
    /\ pc = "idle"
    /\ flightBearing = 0
    /\ bearingIsNaN = FALSE
    /\ i = 0
    /\ flightPath = << >>
    /\ sunEvents = << >>
    /\ sunVisibleCount = 0
    /\ leftSideCount = 0
    /\ rightSideCount = 0
    /\ observed = << >>
    /\ caught = NoError
    /\ result = Pending

Init ==
    /\ flightDetails \in
          { [departure |-> c[1], arrival |-> c[2], durationMinutes |-> d] :
              c \in FlightCodes, d \in Durations }
    /\ pc = "lookup"
    /\ flightBearing = 0
    /\ bearingIsNaN = FALSE
    /\ i = 0
    /\ flightPath = << >>
    /\ sunEvents = << >>
    /\ sunVisibleCount = 0
    /\ leftSideCount = 0
    /\ rightSideCount = 0
    /\ observed = << >>
    /\ caught = NoError
    /\ result = Pending
    /\ ApiIdle
    /\ UiIdle

\* the locals of the try block are gone once control is in the catch clause
Throw(error) ==
    /\ pc' = "catch"
    /\ caught' = error
    /\ i' = 0
    /\ flightBearing' = 0
    /\ bearingIsNaN' = FALSE
    /\ flightPath' = << >>
    /\ sunEvents' = << >>
    /\ sunVisibleCount' = 0
    /\ leftSideCount' = 0
    /\ rightSideCount' = 0
    /\ observed' = << >>
    /\ UNCHANGED <<flightDetails, result>>
    /\ UNCHANGED <<apiVars, uiVars>>

\* Steps 1-3 (lines 532-557), both airports found
LookupFound ==
    /\ pc = "lookup"
    /\ FindAirport(flightDetails.departure)
    /\ FindAirport(flightDetails.arrival)
    /\ \/ flightBearing' \in Bearings /\ bearingIsNaN' = FALSE
       \/ flightBearing' = 0 /\ bearingIsNaN' = TRUE
    /\ pc' = "loop"
    /\ UNCHANGED <<flightDetails, i, flightPath, sunEvents, sunVisibleCount,
                   leftSideCount, rightSideCount, observed, caught, result>>
    /\ UNCHANGED <<apiVars, uiVars>>

\* Step 1 (lines 537-539), an airport is missing
LookupMissing ==
    /\ pc = "lookup"
    /\ ~(FindAirport(flightDetails.departure) /\ FindAirport(flightDetails.arrival))
    /\ Throw(AirportNotFound(flightDetails))

\* the time of sample idx, in minutes after departureTime (line 575)
CurrentTime(idx) == TimeOffsetMinutes(idx, flightDetails.durationMinutes)

\* the body of the loop of Step 5 (lines 561-631) at index i, the libraries
\* returning obs
SampleStep(obs) ==
    /\ LET d == flightDetails.durationMinutes
           timeOffsetMinutes == TimeOffsetMinutes(i, d)
           progress == Frac(timeOffsetMinutes, d)
           currentTime == CurrentTime(i)
       IN    LET sunVisible == AboveHorizon(obs)
                 \* every comparison on a NaN azimuthDiff is false (line 595)
                 viewingSide == IF ~sunVisible THEN "undefined"
                                ELSE IF bearingIsNaN \/ obs.nan THEN "left"
                                ELSE ViewingSide(obs.azimuth, flightBearing)
             IN  /\ sunVisibleCount' =
                       IF sunVisible THEN sunVisibleCount + 1 ELSE sunVisibleCount
                 /\ leftSideCount' =
                       IF sunVisible /\ viewingSide = "left"
                       THEN leftSideCount + 1 ELSE leftSideCount
                 /\ rightSideCount' =
                       IF sunVisible /\ viewingSide # "left"
                       THEN rightSideCount + 1 ELSE rightSideCount
                 /\ sunEvents' =
                       IF sunVisible
                       THEN sunEvents \o RawEventsAt(currentTime, obs, viewingSide)
                       ELSE sunEvents
                 /\ flightPath' = Append(flightPath,
                       [time |-> currentTime,
                        location |-> CurrentPosition(timeOffsetMinutes),
                        progress |-> progress,
                        sunPosition |-> [azimuth |-> obs.azimuth,
                                         elevation |-> obs.elevation,
                                         nan |-> obs.nan,
                                         visible |-> sunVisible],
                        aircraftBearing |-> flightBearing,
                        viewingSide |-> viewingSide])
                 /\ observed' = Append(observed, obs)
    /\ i' = i + 1
    /\ UNCHANGED <<flightDetails, pc, flightBearing, bearingIsNaN, caught, result>>
    /\ UNCHANGED <<apiVars, uiVars>>

\* Step 5 (lines 560-632): one iteration of the loop
Sample ==
    /\ pc = "loop"
    /\ i <= NumIntervals(flightDetails.durationMinutes)
    /\ \E obs \in SunObs(flightDetails.durationMinutes, CurrentTime(i)) :
          SampleStep(obs)

\* Step 6 (lines 634-710): the loop is over, build and return the result
Aggregate ==
    /\ pc = "loop"
    /\ i > NumIntervals(flightDetails.durationMinutes)
    /\ result' = SuccessResult(flightDetails, flightPath, sunEvents,
                               sunVisibleCount, leftSideCount, rightSideCount)
    /\ pc' = "done"
    /\ UNCHANGED <<flightDetails, flightBearing, bearingIsNaN, i, flightPath, sunEvents,
                   sunVisibleCount, leftSideCount, rightSideCount, observed,
                   caught>>
    /\ UNCHANGED <<apiVars, uiVars>>

\* a statement of the try block other than line 538 throws (a library call)
Raise ==
    /\ pc = "loop"
    /\ \E error \in { [kind |-> "Error", message |-> "library", code |-> ""],
                      [kind |-> "not an Error", message |-> "", code |-> ""] } :
          Throw(error)

\* the catch clause (lines 712-733)
Catch ==
    /\ pc = "catch"
    /\ result' = ErrorResult(flightDetails, caught)
    /\ pc' = "done"
    /\ UNCHANGED <<flightDetails, flightBearing, bearingIsNaN, i, flightPath, sunEvents,
                   sunVisibleCount, leftSideCount, rightSideCount, observed,
                   caught>>
    /\ UNCHANGED <<apiVars, uiVars>>

Next ==
    \/ LookupFound
    \/ LookupMissing
    \/ Sample
    \/ Aggregate
    \/ Raise
    \/ Catch

Spec == Init /\ [][Next]_vars

-----------------------------------------------------------------------------
(* Viewing-side classification over every whole-degree azimuth and bearing *)

Degrees == 0..359

InitSide ==
    /\ flightDetails = [departure |-> "JFK", arrival |-> "LHR",
                        durationMinutes |-> IntervalMinutes]
    /\ pc = "loop"
    /\ flightBearing \in Degrees
    /\ bearingIsNaN = FALSE
    /\ i = 0
    /\ flightPath = << >>
    /\ sunEvents = << >>
    /\ sunVisibleCount = 0
    /\ leftSideCount = 0
    /\ rightSideCount = 0
    /\ observed = << >>
    /\ caught = NoError
    /\ result = Pending
    /\ ApiIdle
    /\ UiIdle

\* the first iteration of the loop, the sun up at any azimuth
SampleAnyAzimuth ==
    /\ pc = "loop"
    /\ i = 0
    /\ \E az \in Degrees :
          SampleStep([azimuth |-> az, elevation |-> 3, nan |-> FALSE,
                      sunrise |-> Instant(-Far), sunset |-> Instant(Far)])

NextSide == SampleAnyAzimuth

SpecSide == InitSide /\ [][NextSide]_vars

-----------------------------------------------------------------------------
(* Properties *)

Returned == pc = "done" /\ result.kind = "returned"

\* the try block returned: no exception reached the catch clause
Succeeded == Returned /\ caught.kind = "none"

\* C1: a successful call with durationMinutes > 0 returns a flightPath of
\* ceil(durationMinutes/5) + 1 points, the first at progress 0 and time
\* departureTime, the last at progress 1 and time departureTime +
\* durationMinutes, whether or not durationMinutes is a multiple of 5.
C1_PathLengthAndEnds ==
    Succeeded =>
        LET path == result.flightPath
            d == flightDetails.durationMinutes
            n == Len(path) - 1
        IN  /\ n >= 1
            /\ 5 * n >= d
            /\ 5 * (n - 1) < d
            /\ path[1].progress.num = 0
            /\ path[1].time = 0
            /\ path[Len(path)].progress.num = path[Len(path)].progress.den
            /\ path[Len(path)].time = d

C1_Witness ==
    /\ Succeeded
    /\ flightDetails.durationMinutes % 5 # 0
    /\ Len(result.flightPath) = 4

C3_EventMajority ==
    (Succeeded /\ Len(result.events) > 0) =>
        LET L == Cardinality({k \in 1..Len(result.events) :
                                 result.events[k].viewingSide = "left"})
            R == Cardinality({k \in 1..Len(result.events) :
                                 result.events[k].viewingSide = "right"})
            capped(c) == IF 60 + 15 * c > 95 THEN 95 ELSE 60 + 15 * c
        IN  /\ L > R => /\ result.recommendation = "left"
                        /\ result.confidence = [num |-> capped(L), den |-> 1]
            /\ R > L => /\ result.recommendation = "right"
                        /\ result.confidence = [num |-> capped(R), den |-> 1]
            /\ L = R => /\ result.recommendation = "either"
                        /\ result.confidence = [num |-> 75, den |-> 1]

\* the events favour the right side although the sample tallies favour the left
C3_Witness ==
    /\ Succeeded
    /\ Len(result.events) > 0
    /\ result.recommendation = "right"
    /\ 5 * leftSideCount > 6 * rightSideCount

\* C4: with no deduplicated event and the sun visible at one sample or more:
\* leftSideCount > 1.2 * rightSideCount gives 'left' with confidence
\* min(80, 50 + 30 * leftSideCount / sunVisibleCount); symmetrically for
\* 'right'; every other case gives 'either' with confidence 50; the two
\* dominance conditions never hold together.
C4_ExposureFallback ==
    (Succeeded /\ Len(result.events) = 0 /\ sunVisibleCount >= 1) =>
        LET l == leftSideCount
            r == rightSideCount
            v == sunVisibleCount
            c == result.confidence
            conf(side) ==
                IF 50 * v + 30 * side <= 80 * v
                THEN c.num * v = (50 * v + 30 * side) * c.den
                ELSE c.num = 80 * c.den
        IN  /\ ~(5 * l > 6 * r /\ 5 * r > 6 * l)
            /\ 5 * l > 6 * r => result.recommendation = "left" /\ conf(l)
            /\ 5 * r > 6 * l => result.recommendation = "right" /\ conf(r)
            /\ (~(5 * l > 6 * r) /\ ~(5 * r > 6 * l)) =>
                  /\ result.recommendation = "either"
                  /\ c.num = 50 * c.den

\* the left tally leads, but by less than the 1.2 threshold
C4_Witness ==
    /\ Succeeded
    /\ Len(result.events) = 0
    /\ leftSideCount = 6
    /\ rightSideCount = 5
    /\ result.recommendation = "either"

\* C5: at a sample with the sun visible, with azimuthDiff = (sunAzimuth -
\* flightBearing) mod 360: viewingSide is 'right' exactly when
\* 0 < azimuthDiff < 180 and 'left' otherwise; the code's normalisation
\* yields that value, in [0, 360), for every azimuth and bearing in [0, 360).
C5_ViewingSide ==
    \A k \in 1..Len(flightPath) :
        flightPath[k].sunPosition.visible =>
            LET az == flightPath[k].sunPosition.azimuth
                diff == (az - flightBearing) % 360
            IN  /\ AzimuthDiff(az, flightBearing) = diff
                /\ AzimuthDiff(az, flightBearing) >= 0
                /\ AzimuthDiff(az, flightBearing) < 360
                /\ (flightPath[k].viewingSide = "right") <=> (0 < diff /\ diff < 180)
                /\ (flightPath[k].viewingSide = "left") <=> ~(0 < diff /\ diff < 180)

\* a sun azimuth smaller than the bearing, classified on the right
C5_Witness ==
    \E k \in 1..Len(flightPath) :
        /\ flightPath[k].sunPosition.visible
        /\ flightPath[k].sunPosition.azimuth < flightBearing
        /\ flightPath[k].viewingSide = "right"

\* the raw event list holds an event of this type taken at sample k
RawEmitted(k, type) ==
    \E e \in 1..Len(sunEvents) :
        sunEvents[e].time = flightPath[k].time /\ sunEvents[e].type = type

\* sample k lies less than 15 minutes from the instant
NearSample(k, instant) ==
    /\ ~instant.nan
    /\ flightPath[k].time - instant.t < 15
    /\ instant.t - flightPath[k].time < 15

\* C6 as stated: at a sample with the sun visible a raw sunrise event is
\* emitted exactly when the sample is less than 15 minutes from the local
\* sunrise, and a raw sunset event exactly when it is less than 15 minutes
\* from the local sunset; a sample with the sun not visible emits no event.
C6_SymmetricRule ==
    \A k \in 1..Len(flightPath) :
        IF flightPath[k].sunPosition.visible
        THEN /\ RawEmitted(k, "sunrise") <=> NearSample(k, observed[k].sunrise)
             /\ RawEmitted(k, "sunset") <=> NearSample(k, observed[k].sunset)
        ELSE ~RawEmitted(k, "sunrise") /\ ~RawEmitted(k, "sunset")

\* C6 (amended): at a sample with the sun visible a raw sunrise event is
\* emitted exactly when the sample is less than 15 minutes from the local
\* sunrise, and a raw sunset event exactly when it is less than 15 minutes
\* from the local sunset and not less than 15 minutes from the local sunrise;
\* a sample with the sun not visible emits no event.
C6_SunriseFirst ==
    \A k \in 1..Len(flightPath) :
        IF flightPath[k].sunPosition.visible
        THEN /\ RawEmitted(k, "sunrise") <=> NearSample(k, observed[k].sunrise)
             /\ RawEmitted(k, "sunset") <=>
                   (/\ NearSample(k, observed[k].sunset)
                    /\ ~NearSample(k, observed[k].sunrise))
        ELSE ~RawEmitted(k, "sunrise") /\ ~RawEmitted(k, "sunset")

\* a visible sample near both instants carries a sunrise event alone
C6_Witness ==
    \E k \in 1..Len(flightPath) :
        /\ flightPath[k].sunPosition.visible
        /\ NearSample(k, observed[k].sunrise)
        /\ NearSample(k, observed[k].sunset)
        /\ RawEmitted(k, "sunrise")
        /\ ~RawEmitted(k, "sunset")

ResultFields ==
    {"kind", "recommendation", "confidence", "description", "events",
     "departure", "arrival", "flightPath", "totalDistance", "totalDuration",
     "summary"}

\* C7: when the departure or the arrival code matches no airport record the
\* call returns recommendation 'either', confidence 0, no events, an empty
\* flightPath, departure and arrival records named 'Unknown', and a
\* description that carries a code that was not found.
C7_AirportNotFound ==
    (pc = "done" /\ (flightDetails.departure \notin Airports
                     \/ flightDetails.arrival \notin Airports)) =>
        /\ result.kind = "returned"
        /\ result.recommendation = "either"
        /\ result.confidence.num = 0
        /\ result.events = << >>
        /\ result.flightPath = << >>
        /\ result.departure.name = "Unknown"
        /\ result.arrival.name = "Unknown"
        /\ result.description.text = "Airport not found"
        /\ result.description.code \in
              {flightDetails.departure, flightDetails.arrival} \ Airports

\* the departure airport exists, the arrival airport does not
C7_Witness ==
    /\ Returned
    /\ flightDetails.departure \in Airports
    /\ flightDetails.arrival \notin Airports
    /\ result.description.code = flightDetails.arrival

\* C8: no exception leaves calculateSunPositionForFlight: every failure
\* raised inside the calculation ends in a returned, structurally complete
\* FlightRecommendation with confidence 0 and an empty flightPath.
C8_NeverThrows ==
    /\ result.kind \in {"pending", "returned"}
    /\ pc = "done" => result.kind = "returned" /\ DOMAIN result = ResultFields
    /\ (pc = "done" /\ caught.kind # "none") =>
          /\ result.confidence.num = 0
          /\ result.flightPath = << >>
          /\ result.events = << >>

\* a library call threw something that is not an Error
C8_Witness ==
    /\ Returned
    /\ caught.kind = "not an Error"
    /\ result.description.text = "Unknown error"

\* C9: every result of the success path has confidence >= 50 (50, 75, 90,
\* 95, or a value in (50, 80]); confidence 0 comes from the error path only.
C9_ConfidenceZeroMeansFailure ==
    Returned =>
        LET c == result.confidence
        IN  /\ caught.kind = "none" =>
                /\ c.num >= 50 * c.den
                /\ \/ c.den = 1 /\ c.num \in {50, 75, 90, 95}
                   \/ c.num > 50 * c.den /\ c.num <= 80 * c.den
            /\ c.num = 0 => caught.kind # "none"
            /\ caught.kind # "none" => c.num = 0

\* a success whose confidence is none of 50, 75, 90, 95
C9_Witness ==
    /\ Succeeded
    /\ result.confidence.num * 11 = 760 * result.confidence.den

\* C10: every result, of the success path and of the error path, has a
\* recommendation in {'left', 'right', 'either'} and a confidence in [0, 100].
C10_ResultRanges ==
    Returned =>
        /\ result.recommendation \in {"left", "right", "either"}
        /\ result.summary.bestViewingSide \in {"left", "right", "either"}
        /\ result.confidence.den > 0
        /\ result.confidence.num >= 0
        /\ result.confidence.num <= 100 * result.confidence.den

\* three events on one side: 60 + 45 is capped at 95
C10_Witness ==
    /\ Succeeded
    /\ Len(result.events) >= 3
    /\ result.recommendation = "left"
    /\ result.confidence = [num |-> 95, den |-> 1]
    /\ \A k \in 1..Len(result.events) : result.events[k].viewingSide = "left"

\* C11: when the sun elevation is above 0 at no sample of the flight, the
\* result has no events, averageSunVisibility 0, recommendation 'either',
\* confidence 50, and no flightPath point carries a viewingSide.
C11_NightFlight ==
    (Succeeded /\ \A k \in 1..Len(observed) :
                      observed[k].nan \/ observed[k].elevation <= 0) =>
        /\ result.events = << >>
        /\ result.summary.averageSunVisibility.num = 0
        /\ result.summary.totalSunriseEvents = 0
        /\ result.summary.totalSunsetEvents = 0
        /\ result.recommendation = "either"
        /\ result.confidence = [num |-> 50, den |-> 1]
        /\ \A k \in 1..Len(result.flightPath) :
              result.flightPath[k].viewingSide = "undefined"

\* a flight of four samples with the sun on the horizon at one of them
C11_Witness ==
    /\ Succeeded
    /\ Len(observed) = 4
    /\ \A k \in 1..Len(observed) : observed[k].elevation <= 0
    /\ \E k \in 1..Len(observed) : observed[k].elevation = 0
    /\ \E k \in 1..Len(observed) : observed[k].elevation < 0

\* C12: in every flightPath point sunPosition.visible is true exactly when
\* the elevation is above 0, and viewingSide is 'left' or 'right' exactly
\* when sunPosition.visible is true; it is undefined for every point with the
\* sun at or below the horizon.
C12_VisibleAndSide ==
    \A k \in 1..Len(flightPath) :
        LET p == flightPath[k]
            above == ~p.sunPosition.nan /\ p.sunPosition.elevation > 0
        IN  /\ p.sunPosition.visible <=> above
            /\ p.sunPosition.visible <=> p.viewingSide \in {"left", "right"}
            /\ ~above => p.viewingSide = "undefined"

\* a path with a point below the horizon, one on it and one above it
C12_Witness ==
    /\ Succeeded
    /\ \E a, b, c \in 1..Len(result.flightPath) :
          /\ result.flightPath[a].sunPosition.elevation < 0
          /\ result.flightPath[b].sunPosition.elevation = 0
          /\ ~result.flightPath[b].sunPosition.nan
          /\ result.flightPath[c].sunPosition.visible
          /\ result.flightPath[c].viewingSide = "right"

AirportMissing ==
    flightDetails.departure \notin Airports \/ flightDetails.arrival \notin Airports

\* C16 as stated: on an airport-lookup failure the returned globeData is
\* zeroed: flightPath is empty and totalDistance, totalDuration,
\* totalSunriseEvents, totalSunsetEvents and averageSunVisibility are all 0,
\* whatever durationMinutes was supplied.
C16_AllZeroed ==
    (Returned /\ AirportMissing) =>
        /\ result.flightPath = << >>
        /\ result.totalDistance = 0
        /\ result.totalDuration = 0
        /\ result.summary.totalSunriseEvents = 0
        /\ result.summary.totalSunsetEvents = 0
        /\ result.summary.averageSunVisibility.num = 0

\* C16 (amended): on an airport-lookup failure flightPath is empty and
\* totalDistance, totalSunriseEvents, totalSunsetEvents and
\* averageSunVisibility are 0, while totalDuration is the durationMinutes
\* that was supplied.
C16_ZeroedButDuration ==
    (Returned /\ AirportMissing) =>
        /\ result.flightPath = << >>
        /\ result.totalDistance = 0
        /\ result.totalDuration = flightDetails.durationMinutes
        /\ result.summary.totalSunriseEvents = 0
        /\ result.summary.totalSunsetEvents = 0
        /\ result.summary.averageSunVisibility.num = 0

\* a lookup failure on an 11-minute flight
C16_Witness ==
    /\ Returned
    /\ AirportMissing
    /\ caught.message = "Airport not found"
    /\ result.totalDuration = 11

\* C17: in every returned result totalSunriseEvents and totalSunsetEvents are
\* the numbers of 'sunrise' and 'sunset' entries of the returned events list,
\* their sum is events.length, and summary.bestViewingSide is the top-level
\* recommendation; on the error path as well.
C17_SummaryMatchesEvents ==
    Returned =>
        LET ofType(type) == {k \in 1..Len(result.events) :
                                result.events[k].type = type}
        IN  /\ result.summary.totalSunriseEvents = Cardinality(ofType("sunrise"))
            /\ result.summary.totalSunsetEvents = Cardinality(ofType("sunset"))
            /\ result.summary.totalSunriseEvents + result.summary.totalSunsetEvents
                  = Len(result.events)
            /\ result.summary.bestViewingSide = result.recommendation

\* deduplication dropped an event; one sunrise and two sunsets are returned
C17_Witness ==
    /\ Succeeded
    /\ Len(result.events) < Len(sunEvents)
    /\ result.summary.totalSunriseEvents = 1
    /\ result.summary.totalSunsetEvents = 2
    /\ result.recommendation # "either"

\* C18: averageSunVisibility is 100 * (flightPath points with the sun
\* visible) / (flightPath points) and lies in [0, 100]; sunVisibleCount never
\* exceeds the number of points and always equals leftSideCount +
\* rightSideCount.
C18_AverageSunVisibility ==
    /\ sunVisibleCount <= Len(flightPath)
    /\ sunVisibleCount = leftSideCount + rightSideCount
    /\ Returned =>
          LET avg == result.summary.averageSunVisibility
              visible == {k \in 1..Len(result.flightPath) :
                             result.flightPath[k].sunPosition.visible}
          IN  /\ avg.den > 0
              /\ avg.num >= 0
              /\ avg.num <= 100 * avg.den
              /\ Len(result.flightPath) > 0 =>
                    avg.num * Len(result.flightPath)
                        = 100 * Cardinality(visible) * avg.den

\* the sun is visible at one of three samples
C18_Witness ==
    /\ Succeeded
    /\ Len(result.flightPath) = 3
    /\ sunVisibleCount = 1
    /\ result.summary.averageSunVisibility = [num |-> 100, den |-> 3]

\* C19: when the sunrise or sunset instant at a sample is not a time, no
\* event of that kind is emitted for that sample, nothing is thrown because
\* of it, and the remaining samples are processed: the path still gets its
\* ceil(durationMinutes/5) + 1 points.
C19_MissingSunTimes ==
    /\ \A k \in 1..Len(flightPath) :
          /\ observed[k].sunrise.nan => ~RawEmitted(k, "sunrise")
          /\ observed[k].sunset.nan => ~RawEmitted(k, "sunset")
    /\ pc = "loop" => Len(flightPath) = i /\ Len(observed) = i /\ caught.kind = "none"
    /\ Succeeded =>
          /\ 5 * (Len(result.flightPath) - 1) >= flightDetails.durationMinutes
          /\ 5 * (Len(result.flightPath) - 2) < flightDetails.durationMinutes

\* the first sample has no sunrise but is near sunset: it emits a sunset
\* event, and the call goes on to a later sample that emits an event too
C19_Witness ==
    /\ Succeeded
    /\ Len(flightPath) >= 3
    /\ observed[1].sunrise.nan
    /\ ~observed[1].sunset.nan
    /\ RawEmitted(1, "sunset")
    /\ observed[2].sunrise.nan /\ observed[2].sunset.nan
    /\ flightPath[2].sunPosition.visible
    /\ RawEmitted(3, "sunrise")

KeptIndices ==
    {k \in 1..Len(sunEvents) :
        \A j \in 1..(k - 1) :
            ~(/\ sunEvents[j].type = sunEvents[k].type
              /\ Abs(sunEvents[j].time - sunEvents[k].time) < 10)}

\* the m-th of them in scan order
KeptIndex(m) ==
    CHOOSE k \in KeptIndices : Cardinality({j \in KeptIndices : j < k}) = m - 1

\* the raw events form one run: one type, each 5 minutes after the one before
FiveMinuteRun ==
    /\ Len(sunEvents) >= 1
    /\ \A k \in 1..(Len(sunEvents) - 1) :
          /\ sunEvents[k + 1].type = sunEvents[k].type
          /\ sunEvents[k + 1].time = sunEvents[k].time + 5

C23_TimeOrdered ==
    Succeeded =>
        LET path == result.flightPath
            d == flightDetails.durationMinutes
        IN  /\ \A k \in 1..(Len(path) - 2) : path[k + 1].time - path[k].time = 5
            /\ Len(path) >= 2 =>
                  /\ path[Len(path)].time - path[Len(path) - 1].time > 0
                  /\ path[Len(path)].time - path[Len(path) - 1].time <= 5
            /\ \A k \in 1..(Len(path) - 1) :
                  FracLess(path[k].progress, path[k + 1].progress)
            /\ \A k \in 1..Len(path) :
                  /\ path[k].progress.num >= 0
                  /\ path[k].progress.num <= path[k].progress.den
                  /\ path[k].progress.den > 0
                  /\ path[k].time <= d

\* a flight of 11 minutes: points at 0, 5, 10 and 11
C23_Witness ==
    /\ Succeeded
    /\ Len(result.flightPath) = 4
    /\ result.flightPath[4].time - result.flightPath[3].time = 1

\* C30: every returned event has a flightPath point with its time and
\* location whose sun is visible and whose viewingSide is the event's, so
\* its elevation is > 0 and its side is defined; no sample emits more than
\* one raw event; the returned events are in chronological order.
C30_EventsMatchPath ==
    Succeeded =>
        LET path == result.flightPath
            events == result.events
        IN  /\ \A m \in 1..Len(events) :
                  /\ \E k \in 1..Len(path) :
                        /\ path[k].time = events[m].time
                        /\ path[k].location = events[m].location
                        /\ path[k].sunPosition.visible
                        /\ path[k].viewingSide = events[m].viewingSide
                  /\ events[m].elevation > 0
                  /\ events[m].viewingSide \in {"left", "right"}
            /\ \A k \in 1..Len(path) :
                  Cardinality({j \in 1..Len(sunEvents) :
                                  sunEvents[j].time = path[k].time}) <= 1
            /\ \A m \in 1..(Len(events) - 1) :
                  events[m].time < events[m + 1].time

\* two events are returned, one of them from a sample that is near both
\* the sunrise and the sunset
C30_Witness ==
    /\ Succeeded
    /\ Len(result.events) >= 2
    /\ \E k \in 1..Len(observed) :
          /\ result.flightPath[k].sunPosition.visible
          /\ NearSample(k, observed[k].sunrise)
          /\ NearSample(k, observed[k].sunset)

-----------------------------------------------------------------------------
(* POST /api/recommendation (src/src/app/actions.ts, lines 327-494)        *)
(*                                                                         *)
(* A JSON value is a record tagged with its JavaScript type; a string is   *)
(* its sequence of characters, a number a quotient.  A departureTime       *)
(* string also carries what new Date(string) makes of it, in minutes       *)
(* relative to Date.now().                                                 *)

Null == [t |-> "null"]

Str(chars) == [t |-> "string", chars |-> chars]

Num(n, d) == [t |-> "number", num |-> n, den |-> d]

TimeStr(date) == [t |-> "string", chars |-> <<"T">>, date |-> date]

\* the value converted to a boolean, as !v and && do
Truthy(v) ==
    CASE v.t = "string" -> Len(v.chars) > 0
      [] v.t = "number" -> v.num # 0
      [] OTHER -> FALSE

Whitespace == {" "}

RECURSIVE TrimStart(_)
TrimStart(chars) ==
    IF chars # << >> /\ Head(chars) \in Whitespace
    THEN TrimStart(Tail(chars)) ELSE chars

RECURSIVE TrimEnd(_)
TrimEnd(chars) ==
    IF chars # << >> /\ chars[Len(chars)] \in Whitespace
    THEN TrimEnd(SubSeq(chars, 1, Len(chars) - 1)) ELSE chars

\* String.prototype.trim
Trim(chars) == TrimEnd(TrimStart(chars))

LowerAlphabet ==
    <<"a", "b", "c", "d", "e", "f", "g", "h", "i", "j", "k", "l", "m",
      "n", "o", "p", "q", "r", "s", "t", "u", "v", "w", "x", "y", "z">>

UpperAlphabet ==
    <<"A", "B", "C", "D", "E", "F", "G", "H", "I", "J", "K", "L", "M",
      "N", "O", "P", "Q", "R", "S", "T", "U", "V", "W", "X", "Y", "Z">>

UpperOf(c) ==
    IF \E k \in 1..26 : LowerAlphabet[k] = c
    THEN UpperAlphabet[CHOOSE k \in 1..26 : LowerAlphabet[k] = c]
    ELSE c

LowerOf(c) ==
    IF \E k \in 1..26 : UpperAlphabet[k] = c
    THEN LowerAlphabet[CHOOSE k \in 1..26 : UpperAlphabet[k] = c]
    ELSE c

\* String.prototype.toLowerCase
ToLowerCase(chars) == [k \in 1..Len(chars) |-> LowerOf(chars[k])]

\* String.prototype.toUpperCase
ToUpperCase(chars) == [k \in 1..Len(chars) |-> UpperOf(chars[k])]

UpperLetters ==
    {"A", "B", "C", "D", "E", "F", "G", "H", "I", "J", "K", "L", "M",
     "N", "O", "P", "Q", "R", "S", "T", "U", "V", "W", "X", "Y", "Z"}

\* validateIataCode (lines 327-343): the error, if any
ValidateIataCode(code, fieldName) ==
    IF ~Truthy(code) \/ code.t # "string"
    THEN << [field |-> fieldName, text |-> "is required and must be a string"] >>
    ELSE LET trimmedCode == ToUpperCase(Trim(code.chars))
         IN  IF Len(trimmedCode) # 3
             THEN << [field |-> fieldName, text |-> "must be exactly 3 characters"] >>
             ELSE IF \E k \in 1..3 : trimmedCode[k] \notin UpperLetters
             THEN << [field |-> fieldName, text |-> "must contain only letters"] >>
             ELSE << >>

\* Date.now(), the origin of the request times
Now == 0

OneDayAgo == Now - 24 * 60

OneYearFromNow == Now + 365 * 24 * 60

\* validateDepartureTime (lines 345-369)
ValidateDepartureTime(timeString) ==
    IF ~Truthy(timeString) \/ timeString.t # "string"
    THEN [error |-> << [field |-> "Departure time", text |-> "is required"] >>,
          date |-> NaT]
    ELSE IF timeString.date.nan
    THEN [error |-> << [field |-> "Departure time", text |-> "must be a valid ISO string"] >>,
          date |-> NaT]
    ELSE IF timeString.date.t < OneDayAgo
    THEN [error |-> << [field |-> "Departure time", text |-> "more than 1 day in the past"] >>,
          date |-> NaT]
    ELSE IF timeString.date.t > OneYearFromNow
    THEN [error |-> << [field |-> "Departure time", text |-> "more than 1 year in the future"] >>,
          date |-> NaT]
    ELSE [error |-> << >>, date |-> timeString.date]

\* validateDuration (lines 371-393)
ValidateDuration(duration) ==
    IF duration.t \in {"undefined", "null"}
    THEN << [field |-> "Flight duration", text |-> "is required"] >>
    ELSE IF duration.t # "number"
    THEN << [field |-> "Flight duration", text |-> "must be a valid number"] >>
    ELSE IF duration.num <= 0
    THEN << [field |-> "Flight duration", text |-> "must be greater than 0 minutes"] >>
    ELSE IF duration.num > 20 * 60 * duration.den
    THEN << [field |-> "Flight duration", text |-> "cannot exceed 20 hours"] >>
    ELSE IF duration.num < 30 * duration.den
    THEN << [field |-> "Flight duration", text |-> "must be at least 30 minutes"] >>
    ELSE << >>

\* lines 424-425: .trim() is called on both codes once both are truthy, and
\* is not a function on a value that is not a string
SameCheckThrows(body) ==
    /\ Truthy(body.departure)
    /\ Truthy(body.arrival)
    /\ (body.departure.t # "string" \/ body.arrival.t # "string")

\* lines 424-427, when nothing throws
SameAirportError(body) ==
    IF /\ Truthy(body.departure)
       /\ Truthy(body.arrival)
       /\ ToUpperCase(Trim(body.departure.chars))
             = ToUpperCase(Trim(body.arrival.chars))
    THEN << [field |-> "Airports", text |-> "must be different"] >>
    ELSE << >>

\* reading body.departure throws on a null body (line 416)
PostThrowsOn(body) == IF body.t = "null" THEN TRUE ELSE SameCheckThrows(body)

\* lines 413-435: errors, in the order they are pushed
ValidationErrors(body) ==
    ValidateIataCode(body.departure, "Departure airport")
    \o ValidateIataCode(body.arrival, "Arrival airport")
    \o SameAirportError(body)
    \o ValidateDepartureTime(body.departureTime).error
    \o ValidateDuration(body.durationMinutes)

\* lines 450-455: the FlightDetails handed to the calculator
PreparedFlightDetails(body) ==
    [departure |-> ToUpperCase(Trim(body.departure.chars)),
     arrival |-> ToUpperCase(Trim(body.arrival.chars)),
     departureTime |-> ValidateDepartureTime(body.departureTime).date,
     durationMinutes |-> [num |-> body.durationMinutes.num,
                          den |-> body.durationMinutes.den]]

\* the IATA code a sequence of characters spells
CodeString(chars) ==
    CASE chars = <<"J", "F", "K">> -> "JFK"
      [] chars = <<"L", "H", "R">> -> "LHR"
      [] chars = <<"Z", "Z", "Z">> -> "ZZZ"
      [] OTHER -> "other"

\* line 458: what calculateSunPositionForFlight returns for these codes; a
\* result of the try block is kept abstract here
CalculatorData(fd) ==
    LET codes == [departure |-> CodeString(fd.departure),
                  arrival |-> CodeString(fd.arrival),
                  durationMinutes |-> fd.durationMinutes]
    IN  IF FindAirport(codes.departure) /\ FindAirport(codes.arrival)
        THEN [kind |-> "returned", computed |-> TRUE]
        ELSE ErrorResult(codes, AirportNotFound(codes))

CodeValues ==
    { Undefined, Null, Num(123, 1), Num(0, 1),
      Str(<< >>), Str(<<" ", " ", " ">>),
      Str(<<"J", "F", "K">>), Str(<<" ", "j", "f", "k", " ">>),
      Str(<<"L", "H", "R">>), Str(<<"l", "h", "r">>),
      Str(<<"Z", "Z", "Z">>), Str(<<"J", "F">>),
      Str(<<"J", "F", "K", "X">>), Str(<<"J", "1", "K">>) }

TimeValues ==
    { Undefined, Num(123, 1), Str(<< >>), TimeStr(NaT),
      TimeStr(Instant(OneDayAgo - 1)), TimeStr(Instant(OneDayAgo)),
      TimeStr(Instant(Now)),
      TimeStr(Instant(OneYearFromNow)), TimeStr(Instant(OneYearFromNow + 1)) }

DurationValues ==
    { Undefined, Null, Str(<<"4", "5">>), Num(0, 1), Num(-5, 1),
      Num(29, 1), Num(59, 2), Num(30, 1), Num(91, 2),
      Num(20 * 60, 1), Num(20 * 60 + 1, 1) }

Bodies ==
    { [t |-> "object", departure |-> dep, arrival |-> arr,
       departureTime |-> tm, durationMinutes |-> dur] :
         dep \in CodeValues, arr \in CodeValues,
         tm \in TimeValues, dur \in DurationValues }

Requests ==
    { [json |-> "malformed"], [json |-> "ok", body |-> Null] }
    \cup { [json |-> "ok", body |-> b] : b \in Bodies }

InitApi ==
    /\ CoreIdle
    /\ UiIdle
    /\ request \in Requests
    /\ apiPc = "received"
    /\ response = [status |-> 0]
    /\ calculatorCalls = << >>

Respond(r) ==
    /\ response' = r
    /\ apiPc' = "responded"
    /\ UNCHANGED <<coreVars, request, uiVars>>

\* lines 400-410: request.json() rejects
PostInvalidJson ==
    /\ apiPc = "received"
    /\ request.json = "malformed"
    /\ Respond([status |-> 400, success |-> FALSE,
                error |-> "Invalid JSON in request body", details |-> << >>])
    /\ UNCHANGED calculatorCalls

\* lines 469-492: a TypeError raised at line 416 or 425 reaches the catch
\* clause; its message does not contain 'Airport not found'
PostUnexpectedError ==
    /\ apiPc = "received"
    /\ request.json = "ok"
    /\ PostThrowsOn(request.body)
    /\ Respond([status |-> 500, success |-> FALSE,
                error |-> "An unexpected error occurred", details |-> << >>])
    /\ UNCHANGED calculatorCalls

\* lines 438-447
PostValidationFailed ==
    /\ apiPc = "received"
    /\ request.json = "ok"
    /\ ~PostThrowsOn(request.body)
    /\ Len(ValidationErrors(request.body)) > 0
    /\ Respond([status |-> 400, success |-> FALSE,
                error |-> "Validation failed",
                details |-> ValidationErrors(request.body)])
    /\ UNCHANGED calculatorCalls

\* lines 449-467
PostCalculate ==
    /\ apiPc = "received"
    /\ request.json = "ok"
    /\ ~PostThrowsOn(request.body)
    /\ Len(ValidationErrors(request.body)) = 0
    /\ calculatorCalls' =
          Append(calculatorCalls, PreparedFlightDetails(request.body))
    /\ Respond([status |-> 200, success |-> TRUE,
                data |-> CalculatorData(PreparedFlightDetails(request.body))])

NextApi ==
    \/ PostInvalidJson
    \/ PostUnexpectedError
    \/ PostValidationFailed
    \/ PostCalculate

SpecApi == InitApi /\ [][NextApi]_vars

-----------------------------------------------------------------------------
(* Properties of POST /api/recommendation                                  *)

Responded == apiPc = "responded"

Letters ==
    UpperLetters \cup
    {"a", "b", "c", "d", "e", "f", "g", "h", "i", "j", "k", "l", "m",
     "n", "o", "p", "q", "r", "s", "t", "u", "v", "w", "x", "y", "z"}

\* the value is a string of exactly 3 letters once trimmed
ThreeLetters(v) ==
    /\ v.t = "string"
    /\ Len(Trim(v.chars)) = 3
    /\ \A k \in 1..3 : Trim(v.chars)[k] \in Letters

\* the value is a string that parses to an instant in [now - 1 day, now + 1 year]
TimeInWindow(v) ==
    /\ v.t = "string"
    /\ Len(v.chars) > 0
    /\ ~v.date.nan
    /\ v.date.t >= Now - 24 * 60
    /\ v.date.t <= Now + 365 * 24 * 60

\* the value is a number in [30, 1200]
DurationInRange(v) ==
    /\ v.t = "number"
    /\ 30 * v.den <= v.num
    /\ v.num <= 1200 * v.den

\* every validation the interface names passes
AllValidationPasses(body) ==
    /\ body.t = "object"
    /\ ThreeLetters(body.departure)
    /\ ThreeLetters(body.arrival)
    /\ ToUpperCase(Trim(body.departure.chars))
          # ToUpperCase(Trim(body.arrival.chars))
    /\ TimeInWindow(body.departureTime)
    /\ DurationInRange(body.durationMinutes)

\* the single-field checks that fail
FailedFields(body) ==
    {f \in {"Departure airport", "Arrival airport", "Departure time",
            "Flight duration"} :
        \/ f = "Departure airport" /\ ~ThreeLetters(body.departure)
        \/ f = "Arrival airport" /\ ~ThreeLetters(body.arrival)
        \/ f = "Departure time" /\ ~TimeInWindow(body.departureTime)
        \/ f = "Flight duration" /\ ~DurationInRange(body.durationMinutes)}

ReportedFields == {response.details[k].field : k \in 1..Len(response.details)}

ValidationFailedResponse ==
    /\ response.status = 400
    /\ response.error = "Validation failed"
    /\ Len(response.details) > 0

\* C13: once a parsed request is answered, the calculator has been called
\* exactly when every validation passed, and then with the trimmed,
\* upper-cased codes; otherwise the answer is 400 'Validation failed'
\* reporting every failed check, and the calculator has not been called.
C13_ValidationGate ==
    (Responded /\ request.json = "ok") =>
        IF AllValidationPasses(request.body)
        THEN /\ Len(calculatorCalls) = 1
             /\ calculatorCalls[1].departure
                   = ToUpperCase(Trim(request.body.departure.chars))
             /\ calculatorCalls[1].arrival
                   = ToUpperCase(Trim(request.body.arrival.chars))
             /\ response.status = 200
        ELSE /\ calculatorCalls = << >>
             /\ ValidationFailedResponse
             /\ request.body.t = "object"
             /\ FailedFields(request.body) \subseteq ReportedFields

\* The same rule restricted to the requests on which lines 416 and 425 do
\* not throw: the body is an object and no truthy airport code that is not
\* a string stands beside another truthy code.
C13_GateWithoutTypeError ==
    (Responded /\ request.json = "ok" /\ ~PostThrowsOn(request.body)) =>
        C13_ValidationGate

\* C14: a request whose durationMinutes is a number that is not an integer
\* is not answered with a success and never reaches the calculator.
C14_IntegerDuration ==
    (/\ Responded
     /\ request.json = "ok"
     /\ request.body.t = "object"
     /\ request.body.durationMinutes.t = "number"
     /\ request.body.durationMinutes.den # 1)
        => (response.status # 200 /\ calculatorCalls = << >>)

\* C15: a request whose body is not valid JSON or fails validation is
\* answered with a 4xx status and a message, never with a 5xx status.
C15_ClientErrorsOnly ==
    (/\ Responded
     /\ \/ request.json = "malformed"
        \/ ~AllValidationPasses(request.body))
        => (/\ response.status \in 400..499
            /\ response.error # "")

-----------------------------------------------------------------------------
(* getFlightRecommendation (src/src/app/actions.ts, lines 31-300) under    *)
(* useActionState in FlightSunTracker (src/src/app/flight-globe/page.tsx,  *)
(* lines 195-253), and the views of ResultsArea                            *)
(* (src/src/components/ResultsArea.tsx, lines 131-486).                    *)
(*                                                                         *)
(* A duration text is represented by the pattern of parseDurationToMinutes *)
(* it matches once trimmed and lower-cased, and by its digit groups.       *)

MaxSubmissions == 2

DurationText(shape, hours, minutes) ==
    [t |-> "string", shape |-> shape, hours |-> hours, minutes |-> minutes]

NoMinutes == [t |-> "null"]

Minutes(n) == [t |-> "number", num |-> n, den |-> 1]

\* parseDurationToMinutes (lines 148-182)
ParseDurationToMinutes(duration) ==
    CASE duration.shape = "minutes" -> Minutes(duration.minutes)
      [] duration.shape = "hours" -> Minutes(duration.hours * 60)
      [] duration.shape = "hours minutes" ->
            Minutes(duration.hours * 60 + duration.minutes)
      [] duration.shape = "colon" ->
            Minutes(duration.hours * 60 + duration.minutes)
      [] OTHER -> NoMinutes

\* the entries of cityToIATA (lines 192-281) the model uses
CityToIATA(city) ==
    CASE city = <<"n", "y", "c">> -> <<"J", "F", "K">>
      [] city = <<"l", "o", "n", "d", "o", "n">> -> <<"L", "H", "R">>
      [] OTHER -> << >>

RECURSIVE LettersOnly(_)
LettersOnly(chars) ==
    IF chars = << >> THEN << >>
    ELSE (IF \E k \in 1..26 : chars[1] \in {LowerAlphabet[k], UpperAlphabet[k]}
          THEN << chars[1] >> ELSE << >>) \o LettersOnly(Tail(chars))

\* mapCityToIATA (lines 188-300)
MapCityToIATA(cityName) ==
    LET city == Trim(ToLowerCase(cityName))
    IN  IF Len(CityToIATA(city)) > 0 THEN CityToIATA(city)
        ELSE IF Len(cityName) = 3 /\ LettersOnly(cityName) = cityName
        THEN ToUpperCase(cityName)
        ELSE ToUpperCase(SubSeq(LettersOnly(cityName), 1,
                                Min(3, Len(LettersOnly(cityName)))))

\* !rawData.field?.trim() on a form field (null when the field is missing)
BlankText(v) == v.t # "string" \/ Len(Trim(v.chars)) = 0

\* lines 45-62: the required-field errors
RequiredErrors(data) ==
    {e \in { [field |-> "sourceCity", text |-> "Source city is required"],
             [field |-> "destinationCity", text |-> "Destination city is required"],
             [field |-> "departureTime", text |-> "Departure time is required"],
             [field |-> "flightDuration", text |-> "Flight duration is required"] } :
        \/ e.field = "sourceCity" /\ BlankText(data.sourceCity)
        \/ e.field = "destinationCity" /\ BlankText(data.destinationCity)
        \/ e.field = "departureTime" /\ ~Truthy(data.departureTime)
        \/ e.field = "flightDuration" /\ data.flightDuration.shape = "blank"}

Errors(entries) == [t |-> "object", entries |-> entries]

Text(text) == [kind |-> "text", text |-> text]

RequiredFieldsStateKeepingData(prev, data) ==
    [prev EXCEPT !.success = FALSE,
                      !.message = Text("Please fix the errors below"),
                      !.errors = Errors(RequiredErrors(data))]

\* lines 64-70
RequiredFieldsState(prev, data) ==
    [success |-> FALSE,
     message |-> Text("Please fix the errors below"),
     data |-> Undefined,
     errors |-> Errors(RequiredErrors(data))]

\* lines 74-82
DurationFormatState ==
    [success |-> FALSE,
     message |-> Text("Invalid flight duration format"),
     data |-> Undefined,
     errors |-> Errors({[field |-> "flightDuration",
                         text |-> "Please use format like 2h 30m"]})]

\* lines 132-141: the catch clause
UnexpectedErrorState ==
    [success |-> FALSE,
     message |-> Text("An unexpected error occurred. Please try again."),
     data |-> Undefined,
     errors |-> Errors({[field |-> "general",
                         text |-> Text("Network or server error occurred")]})]

\* lines 85-93 and JSON.stringify (line 102): the body POST receives
ApiPayload(data) ==
    [t |-> "object",
     departure |-> Str(MapCityToIATA(Trim(data.sourceCity.chars))),
     arrival |-> Str(MapCityToIATA(Trim(data.destinationCity.chars))),
     departureTime |-> TimeStr(data.departureTime.date),
     durationMinutes |-> ParseDurationToMinutes(data.flightDuration)]

\* result.details || result.error || fallback
ApiMessage(res, fallback) ==
    IF Len(res.details) > 0 THEN [kind |-> "details", details |-> res.details]
    ELSE IF res.error # "" THEN Text(res.error)
    ELSE Text(fallback)

StateFromResponseRejectingDegraded(prev, res) ==
    IF res.status = 200 /\ res.success /\ res.data.kind = "returned"
          /\ "computed" \in DOMAIN res.data
    THEN [success |-> TRUE,
          message |-> Text("Flight recommendation generated successfully!"),
          data |-> res.data,
          errors |-> Undefined]
    ELSE [success |-> FALSE,
          message |-> Text("Failed to generate recommendation"),
          data |-> Undefined,
          errors |-> Errors({[field |-> "general",
                              text |-> Text("Unknown error occurred")]})]

\* lines 104-130: the state built from the response of the API
StateFromResponse(prev, res) ==
    IF res.status \notin 200..299
    THEN [success |-> FALSE,
          message |-> ApiMessage(res, "Failed to get recommendation"),
          data |-> Undefined,
          errors |-> Errors({[field |-> "general",
                              text |-> ApiMessage(res, "API error occurred")]})]
    ELSE IF res.success
    THEN [success |-> TRUE,
          message |-> Text("Flight recommendation generated successfully!"),
          data |-> res.data,
          errors |-> Undefined]
    ELSE [success |-> FALSE,
          message |-> Text(res.error),
          data |-> Undefined,
          errors |-> Errors({[field |-> "general", text |-> Text(res.error)]})]

SourceCities ==
    { Null, Str(<<" ", " ">>), Str(<<"n", "y", "c">>),
      Str(<<"z", "z", "z">>) }

DestinationCities ==
    { Str(<< >>), Str(<<"l", "o", "n", "d", "o", "n">>), Str(<<"l", "o">>),
      Str(<<"J", "F", "K", " ">>) }

DepartureTimes ==
    { Str(<< >>), TimeStr(NaT), TimeStr(Instant(Now)),
      TimeStr(Instant(OneDayAgo - 1)) }

FlightDurations ==
    { DurationText("blank", 0, 0), DurationText("other", 0, 0),
      DurationText("minutes", 0, 45), DurationText("hours", 25, 0),
      DurationText("colon", 1, 30) }

\* the fields a FormData can carry
FormDatas ==
    { [sourceCity |-> src, destinationCity |-> dst, departureTime |-> tm,
       flightDuration |-> dur] :
         src \in SourceCities, dst \in DestinationCities,
         tm \in DepartureTimes, dur \in FlightDurations }

InitAction ==
    /\ CoreIdle
    /\ ApiIdle
    /\ UiIdle

\* getFlightRecommendation returns next: useActionState stores the value
Return(next) ==
    /\ state' = next
    /\ isPending' = FALSE
    /\ actionPc' = "returned"
    /\ UNCHANGED <<prevState, rawData, submissions>>

\* the form is submitted: useActionState calls the action with the current
\* state as prevState (page.tsx line 196)
Submit ==
    /\ actionPc \in {"idle", "returned"}
    /\ submissions < MaxSubmissions
    /\ \E data \in FormDatas : rawData' = data
    /\ prevState' = state
    /\ isPending' = TRUE
    /\ actionPc' = "running"
    /\ submissions' = submissions + 1
    /\ request' = [json |-> "none"]
    /\ apiPc' = "idle"
    /\ response' = [status |-> 0]
    /\ calculatorCalls' = << >>
    /\ UNCHANGED <<outsideAction, state>>

\* lines 45-70
ActionRequiredFields ==
    /\ actionPc = "running"
    /\ RequiredErrors(rawData) # {}
    /\ Return(RequiredFieldsState(prevState, rawData))
    /\ UNCHANGED <<outsideAction, apiVars>>

\* lines 73-83
ActionDurationFormat ==
    /\ actionPc = "running"
    /\ RequiredErrors(rawData) = {}
    /\ ParseDurationToMinutes(rawData.flightDuration) = NoMinutes
    /\ Return(DurationFormatState)
    /\ UNCHANGED <<outsideAction, apiVars>>

\* line 92: toISOString throws a RangeError on an Invalid Date
ActionInvalidDate ==
    /\ actionPc = "running"
    /\ RequiredErrors(rawData) = {}
    /\ ParseDurationToMinutes(rawData.flightDuration) # NoMinutes
    /\ rawData.departureTime.date.nan
    /\ Return(UnexpectedErrorState)
    /\ UNCHANGED <<outsideAction, apiVars>>

\* lines 96-103: fetch sends the payload
ActionFetch ==
    /\ actionPc = "running"
    /\ RequiredErrors(rawData) = {}
    /\ ParseDurationToMinutes(rawData.flightDuration) # NoMinutes
    /\ ~rawData.departureTime.date.nan
    /\ request' = [json |-> "ok", body |-> ApiPayload(rawData)]
    /\ apiPc' = "received"
    /\ actionPc' = "fetching"
    /\ UNCHANGED <<outsideAction, response, calculatorCalls, state, isPending,
                   prevState, rawData, submissions>>

\* line 97: fetch rejects
ActionNetworkError ==
    /\ actionPc = "fetching"
    /\ apiPc = "received"
    /\ apiPc' = "idle"
    /\ Return(UnexpectedErrorState)
    /\ UNCHANGED <<outsideAction, request, response, calculatorCalls>>

\* lines 104-130
ActionResponse ==
    /\ actionPc = "fetching"
    /\ apiPc = "responded"
    /\ Return(StateFromResponse(prevState, response))
    /\ UNCHANGED <<outsideAction, apiVars>>

NextAction ==
    \/ Submit
    \/ ActionRequiredFields
    \/ ActionDurationFormat
    \/ ActionInvalidDate
    \/ ActionFetch
    \/ ActionNetworkError
    \/ PostValidationFailed
    \/ PostCalculate
    \/ ActionResponse

SpecAction == InitAction /\ [][NextAction]_vars

\* state?.errors?.general (page.tsx line 249)
General(errors) ==
    IF errors = Undefined THEN Undefined
    ELSE IF \E e \in errors.entries : e.field = "general"
    THEN (CHOOSE e \in errors.entries : e.field = "general").text
    ELSE Undefined

\* a message or an object converted to a boolean
Given(v) == v # Undefined /\ v # Text("")

\* the props FlightSunTracker passes to ResultsArea (page.tsx lines 245-250)
ResultsProps ==
    [hasResults |-> state.success,
     isLoading |-> isPending,
     data |-> state.data,
     error |-> General(state.errors)]

\* ResultsArea.tsx line 135
ShowsLoading(props) == props.isLoading

\* ResultsArea.tsx line 161
ShowsError(props) == Given(props.error) /\ ~props.isLoading

\* ResultsArea.tsx line 184
ShowsResults(props) ==
    props.hasResults /\ Given(props.data) /\ ~props.isLoading /\ ~Given(props.error)

ShowsEmptyWhileLoading(props) == ~props.hasResults /\ ~Given(props.error)

\* ResultsArea.tsx line 485
ShowsEmpty(props) ==
    ~props.hasResults /\ ~props.isLoading /\ ~Given(props.error)

-----------------------------------------------------------------------------
(* Properties of the submission path                                       *)

\* the request is well formed and one of its codes matches no airport record
UnknownAirport(req) ==
    /\ req.json = "ok"
    /\ AllValidationPasses(req.body)
    /\ \E code \in {req.body.departure, req.body.arrival} :
          CodeString(ToUpperCase(Trim(code.chars))) \notin Airports

\* C21: a well-formed request with an airport code that matches no record is
\* answered 200 with success: true and the confidence-0 recommendation, not
\* 400 'Airport not found', and getFlightRecommendation then returns
\* success: true with that data.
C21_LookupFailureIsDegradedResult ==
    (apiPc = "responded" /\ UnknownAirport(request)) =>
        /\ response.status = 200
        /\ response.success
        /\ response.data.confidence = Frac(0, 1)
        /\ response.data.flightPath = << >>
        /\ actionPc = "returned" =>
              /\ state.success
              /\ state.data = response.data
              /\ state.errors = Undefined

C21_Witness ==
    /\ actionPc = "returned"
    /\ apiPc = "responded"
    /\ UnknownAirport(request)
    /\ state.data.confidence = Frac(0, 1)

\* C27: a state returned by getFlightRecommendation has data and no errors
\* when success is true, and at least one error and no data when success is
\* false, whatever prevState was.
C27_StateShape ==
    (actionPc = "returned") =>
        IF state.success
        THEN state.data # Undefined /\ state.errors = Undefined
        ELSE /\ state.errors # Undefined
             /\ Cardinality(state.errors.entries) >= 1
             /\ state.data = Undefined

\* a failed submission that follows a successful one
C27_Witness ==
    /\ actionPc = "returned"
    /\ prevState # Undefined
    /\ prevState.success
    /\ prevState.data # Undefined
    /\ ~state.success
    /\ RequiredErrors(rawData) # {}

\* C28: in every state FlightSunTracker goes through ResultsArea shows
\* exactly one of its loading, error, results and empty views.
C28_ExactlyOneView ==
    Cardinality({view \in {"loading", "error", "results", "empty"} :
        \/ view = "loading" /\ ShowsLoading(ResultsProps)
        \/ view = "error" /\ ShowsError(ResultsProps)
        \/ view = "results" /\ ShowsResults(ResultsProps)
        \/ view = "empty" /\ ShowsEmpty(ResultsProps)}) = 1

\* a second submission is pending while the first recommendation is held
C28_Witness ==
    /\ isPending
    /\ state.success
    /\ Given(state.data)
    /\ ShowsLoading(ResultsProps)
    /\ ~ShowsResults(ResultsProps)

-----------------------------------------------------------------------------
(* FlightForm (src/src/components/FlightForm.tsx, lines 155-445)           *)
(*                                                                         *)
(* An absent message (null, undefined) is the empty string.                *)

Fields == {"sourceCity", "destinationCity", "departureTime", "flightDuration"}

\* parseDurationToMinutes of FlightForm (lines 219-254)
FormParseDurationToMinutes(duration) ==
    CASE duration.shape = "minutes" -> Minutes(duration.minutes)
      [] duration.shape = "hours" -> Minutes(duration.hours * 60)
      [] duration.shape = "hours minutes" ->
            Minutes(duration.hours * 60 + duration.minutes)
      [] duration.shape = "colon" ->
            Minutes(duration.hours * 60 + duration.minutes)
      [] OTHER -> NoMinutes

ValidateFieldIgnoringSource(field, value, data) ==
    CASE field \in {"sourceCity", "destinationCity"} ->
            IF Len(Trim(value.chars)) = 0 THEN "City is required"
            ELSE IF Len(Trim(value.chars)) < 3
            THEN "Please enter at least 3 characters"
            ELSE ""
      [] field = "departureTime" ->
            IF Len(value.chars) = 0 THEN "Departure time is required"
            ELSE IF value.date.nan \/ value.date.t < Now - 24 * 60
                    \/ value.date.t > Now + 365 * 24 * 60
            THEN "Departure time is out of range"
            ELSE ""
      [] field = "flightDuration" ->
            IF FormParseDurationToMinutes(value) = NoMinutes
                  \/ FormParseDurationToMinutes(value).num < 30
                  \/ FormParseDurationToMinutes(value).num > 1200
            THEN "Flight duration is invalid"
            ELSE ""

\* validateField (lines 179-217), formData being the data of the render
ValidateField(field, value, data) ==
    CASE field = "sourceCity" ->
            IF Len(Trim(value.chars)) = 0 THEN "Source city is required"
            ELSE IF Len(Trim(value.chars)) < 3
            THEN "Please enter at least 3 characters"
            ELSE ""
      [] field = "destinationCity" ->
            IF Len(Trim(value.chars)) = 0 THEN "Destination city is required"
            ELSE IF Len(Trim(value.chars)) < 3
            THEN "Please enter at least 3 characters"
            ELSE IF ToLowerCase(Trim(value.chars))
                       = ToLowerCase(Trim(data.sourceCity.chars))
            THEN "Destination must be different from source city"
            ELSE ""
      [] field = "departureTime" ->
            IF ~Truthy(value) THEN "Departure time is required"
            ELSE IF value.date.nan THEN "Please enter a valid date and time"
            ELSE IF value.date.t < Now - 24 * 60
            THEN "Departure time cannot be more than 1 day in the past"
            ELSE IF value.date.t > Now + 365 * 24 * 60
            THEN "Departure time cannot be more than 1 year in the future"
            ELSE ""
      [] field = "flightDuration" ->
            IF value.shape \in {"empty", "blank"} THEN "Flight duration is required"
            ELSE IF FormParseDurationToMinutes(value) = NoMinutes
            THEN "Invalid format"
            ELSE IF FormParseDurationToMinutes(value).num < 30
            THEN "Flight duration must be at least 30 minutes"
            ELSE IF FormParseDurationToMinutes(value).num > 1200
            THEN "Flight duration cannot exceed 20 hours"
            ELSE ""

\* validateAllFields (lines 256-270): the errors object
AllFieldErrors(data) ==
    [field \in Fields |-> ValidateField(field, data[field], data)]

\* the values the user can give a field
FieldValues(field) ==
    CASE field \in {"sourceCity", "destinationCity"} ->
            { Str(<< >>), Str(<<"a", "b">>), Str(<<"n", "y", "c">>),
              Str(<<"N", "Y", "C", " ">>), Str(<<"l", "h", "r">>) }
      [] field = "departureTime" ->
            { Str(<< >>), TimeStr(Instant(Now)),
              TimeStr(Instant(OneDayAgo - 1)) }
      [] field = "flightDuration" ->
            { DurationText("empty", 0, 0), DurationText("blank", 0, 0),
              DurationText("other", 0, 0), DurationText("minutes", 0, 20),
              DurationText("minutes", 0, 45), DurationText("hours", 25, 0) }

\* the required attribute (lines 331, 358, 385, 411): the browser does not
\* dispatch submit while a required field is empty
RequiredFilled(data) ==
    /\ Len(data.sourceCity.chars) > 0
    /\ Len(data.destinationCity.chars) > 0
    /\ Len(data.departureTime.chars) > 0
    /\ data.flightDuration.shape # "empty"

InitForm ==
    /\ CoreIdle
    /\ ApiIdle
    /\ UiIdle

\* handleInputChange (lines 289-305)
HandleInputChange ==
    \E field \in Fields : \E value \in FieldValues(field) :
        /\ value # formData[field]
        /\ formData' = [formData EXCEPT ![field] = value]
        /\ fieldErrors' =
              IF field \in touched
              THEN [fieldErrors EXCEPT ![field] = ValidateField(field, value, formData)]
              ELSE fieldErrors
        /\ lastEvent' = [type |-> "change", defaultPrevented |-> FALSE]
        /\ UNCHANGED <<touched, outsideForm>>

\* handleBlur (lines 307-315)
HandleBlur ==
    \E field \in Fields :
        /\ touched' = touched \cup {field}
        /\ fieldErrors' =
              [fieldErrors EXCEPT ![field] =
                  ValidateField(field, formData[field], formData)]
        /\ lastEvent' = [type |-> "blur", defaultPrevented |-> FALSE]
        /\ UNCHANGED <<formData, outsideForm>>

\* handleSubmit (lines 272-287) with validateAllFields
HandleSubmit ==
    /\ RequiredFilled(formData)
    /\ touched' = Fields
    /\ fieldErrors' = AllFieldErrors(formData)
    /\ lastEvent' =
          [type |-> "submit",
           defaultPrevented |-> \E field \in Fields :
                                   AllFieldErrors(formData)[field] # ""]
    /\ UNCHANGED <<formData, outsideForm>>

NextForm ==
    \/ HandleInputChange
    \/ HandleBlur
    \/ HandleSubmit

SpecForm == InitForm /\ [][NextForm]_vars

\* the field value passes the rule the form states for it
FieldPasses(field, data) ==
    CASE field = "sourceCity" -> Len(Trim(data.sourceCity.chars)) >= 3
      [] field = "destinationCity" ->
            /\ Len(Trim(data.destinationCity.chars)) >= 3
            /\ ToLowerCase(Trim(data.destinationCity.chars))
                  # ToLowerCase(Trim(data.sourceCity.chars))
      [] field = "departureTime" -> TimeInWindow(data.departureTime)
      [] field = "flightDuration" ->
            /\ data.flightDuration.shape \in
                  {"minutes", "hours", "hours minutes", "colon"}
            /\ LET n == IF data.flightDuration.shape = "minutes"
                        THEN data.flightDuration.minutes
                        ELSE 60 * data.flightDuration.hours
                             + data.flightDuration.minutes
               IN  30 <= n /\ n <= 1200

\* C25: a submit event goes on to the form action exactly when all four
\* fields pass their rule at that moment; otherwise it is cancelled and each
\* invalid field, and no other, has its error recorded, whatever edits and
\* blurs came before.
C25_SubmitGate ==
    (lastEvent.type = "submit") =>
        /\ lastEvent.defaultPrevented
              <=> (\E field \in Fields : ~FieldPasses(field, formData))
        /\ \A field \in Fields :
              (fieldErrors[field] # "") <=> ~FieldPasses(field, formData)

\* the destination equals the source up to case and spaces and is the only
\* invalid field of a cancelled submit
C25_Witness ==
    /\ lastEvent.type = "submit"
    /\ lastEvent.defaultPrevented
    /\ formData.sourceCity = Str(<<"n", "y", "c">>)
    /\ formData.destinationCity = Str(<<"N", "Y", "C", " ">>)
    /\ fieldErrors.destinationCity # ""
    /\ fieldErrors.sourceCity = ""
    /\ fieldErrors.flightDuration = ""

-----------------------------------------------------------------------------
(* AutocompleteInput (src/src/components/AutocompleteInput.tsx)            *)
(*                                                                         *)
(* The parent is taken to pass back as the value prop what onChange gave   *)
(* it.  The airports file is not part of the sources; three records stand  *)
(* for it.  highlightedIndex is 0-based as in the code, filteredAirports   *)
(* a 1-based sequence of records.                                          *)

\* pending 150 ms timeouts of handleBlur the model allows at one time
MaxBlurTimers == 2

\* results.slice(0, 15) (line 194)
MaxSuggestions == 15

\* searchableAirports (lines 122-145)
SearchableAirports ==
    << [iata |-> <<"J", "F", "K">>,
       cityName |-> <<"N", "e", "w", " ", "Y", "o", "r", "k">>,
       displayText |->
          <<"K", "e", "n", "n", "e", "d", "y", " ", "A", "i", "r", "p", "o", "r", "t", " ", "-", " ", "N", "e", "w", " ", "Y", "o", "r", "k", " ", "(", "J", "F", "K", ")">>,
       searchTerms |->
          << <<"j", "f", "k">>,
             <<"k", "e", "n", "n", "e", "d", "y", " ", "a", "i", "r", "p", "o", "r", "t">>,
             <<"n", "e", "w", " ", "y", "o", "r", "k">>,
             <<"n", "e", "w">>,
             <<"y", "o", "r", "k">>,
             <<"k", "e", "n", "n", "e", "d", "y">> >>],
      [iata |-> <<"L", "H", "R">>,
       cityName |-> <<"L", "o", "n", "d", "o", "n">>,
       displayText |->
          <<"L", "o", "n", "d", "o", "n", " ", "H", "e", "a", "t", "h", "r", "o", "w", " ", "A", "i", "r", "p", "o", "r", "t", " ", "-", " ", "L", "o", "n", "d", "o", "n", " ", "(", "L", "H", "R", ")">>,
       searchTerms |->
          << <<"l", "h", "r">>,
             <<"l", "o", "n", "d", "o", "n", " ", "h", "e", "a", "t", "h", "r", "o", "w", " ", "a", "i", "r", "p", "o", "r", "t">>,
             <<"l", "o", "n", "d", "o", "n">>,
             <<"l", "o", "n", "d", "o", "n">>,
             <<"l", "o", "n", "d", "o", "n">>,
             <<"h", "e", "a", "t", "h", "r", "o", "w">> >>],
      [iata |-> <<"L", "G", "A">>,
       cityName |-> <<"N", "e", "w", " ", "Y", "o", "r", "k">>,
       displayText |->
          <<"L", "a", " ", "G", "u", "a", "r", "d", "i", "a", " ", "A", "i", "r", "p", "o", "r", "t", " ", "-", " ", "N", "e", "w", " ", "Y", "o", "r", "k", " ", "(", "L", "G", "A", ")">>,
       searchTerms |->
          << <<"l", "g", "a">>,
             <<"l", "a", " ", "g", "u", "a", "r", "d", "i", "a", " ", "a", "i", "r", "p", "o", "r", "t">>,
             <<"n", "e", "w", " ", "y", "o", "r", "k">>,
             <<"n", "e", "w">>,
             <<"y", "o", "r", "k">>,
             <<"g", "u", "a", "r", "d", "i", "a">> >>] >>

StartsWith(chars, prefix) ==
    /\ Len(prefix) <= Len(chars)
    /\ SubSeq(chars, 1, Len(prefix)) = prefix

Includes(chars, part) ==
    \E k \in 0..(Len(chars) - Len(part)) :
        SubSeq(chars, k + 1, k + Len(part)) = part

\* lines 157, 165, 174, 187: the airport is not the excluded one
NotExcluded(airport) ==
    \/ Len(excludeValue) = 0
    \/ ToUpperCase(airport.iata) # ToUpperCase(excludeValue)

\* the match each of the four passes of filterAirports looks for
Matches(airport, searchQuery, priority) ==
    CASE priority = 1 -> ToLowerCase(airport.iata) = searchQuery
      [] priority = 2 -> StartsWith(ToLowerCase(airport.iata), searchQuery)
      [] priority = 3 -> StartsWith(ToLowerCase(airport.cityName), searchQuery)
      [] priority = 4 ->
            \E k \in 1..Len(airport.searchTerms) :
                Includes(airport.searchTerms[k], searchQuery)

\* one pass over searchableAirports from index k on, pushing to results
RECURSIVE AddMatches(_, _, _, _)
AddMatches(results, k, searchQuery, priority) ==
    IF k > Len(SearchableAirports) THEN results
    ELSE LET airport == SearchableAirports[k]
             push == /\ Matches(airport, searchQuery, priority)
                     /\ \A j \in 1..Len(results) : results[j].iata # airport.iata
                     /\ NotExcluded(airport)
                     \* find() of Priority 1 stops at the first match
                     /\ priority = 1 =>
                           \A j \in 1..(k - 1) :
                               ~Matches(SearchableAirports[j], searchQuery, 1)
         IN  AddMatches(IF push THEN Append(results, airport) ELSE results,
                        k + 1, searchQuery, priority)

\* filterAirports (lines 147-196)
FilterAirports(query) ==
    IF Len(query) < 1 THEN << >>
    ELSE LET searchQuery == Trim(ToLowerCase(query))
             p1 == AddMatches(<< >>, 1, searchQuery, 1)
             p2 == AddMatches(p1, 1, searchQuery, 2)
             p3 == AddMatches(p2, 1, searchQuery, 3)
             p4 == AddMatches(p3, 1, searchQuery, 4)
         IN  SubSeq(p4, 1, Min(MaxSuggestions, Len(p4)))

\* lines 199-217: the effect that follows a change of the value prop while
\* no airport is selected: the text and the selected flag it leaves
AfterValue(value) ==
    IF Len(value) = 0 THEN [inputValue |-> << >>, isSelected |-> FALSE]
    ELSE IF \E k \in 1..Len(SearchableAirports) :
               ToLowerCase(SearchableAirports[k].iata) = ToLowerCase(value)
    THEN [inputValue |->
             SearchableAirports[CHOOSE k \in 1..Len(SearchableAirports) :
                 /\ ToLowerCase(SearchableAirports[k].iata) = ToLowerCase(value)
                 /\ \A j \in 1..(k - 1) :
                       ToLowerCase(SearchableAirports[j].iata)
                          # ToLowerCase(value)].displayText,
          isSelected |-> TRUE]
    ELSE [inputValue |-> value, isSelected |-> FALSE]

ArrowDownIndexNoWrap(prev, length) == prev + 1

\* line 277
ArrowDownIndex(prev, length) == IF prev < length - 1 THEN prev + 1 ELSE 0

\* line 284
ArrowUpIndex(prev, length) == IF prev > 0 THEN prev - 1 ELSE length - 1

\* the texts the user types
TypedValues ==
    { << >>,
      <<"j">>,
      <<"j", "f", "k">>,
      <<"l">>,
      <<"n">>,
      <<"x">>,
      <<" ">>,
      <<"l", "h", "r">> }

outsideAc == <<coreVars, apiVars, actionVars, formVars, animVars>>

InitAutocomplete ==
    /\ CoreIdle
    /\ ApiIdle
    /\ ActionIdle
    /\ FormIdle
    /\ AnimIdle
    /\ inputValue = << >>
    /\ isSelected = FALSE
    /\ showSuggestions = FALSE
    /\ highlightedIndex = -1
    /\ filteredAirports = << >>
    /\ excludeValue \in { << >>, <<"j", "f", "k">> }
    /\ focused = FALSE
    /\ blurTimers = 0

\* handleInputChange (lines 220-237), then the effect of lines 199-217
InputChange ==
    /\ focused
    /\ \E newValue \in TypedValues :
          /\ newValue # inputValue
          /\ filteredAirports' = FilterAirports(newValue)
          /\ showSuggestions' =
                (Len(newValue) >= 1 /\ Len(FilterAirports(newValue)) > 0)
          /\ highlightedIndex' = -1
          /\ inputValue' = AfterValue(newValue).inputValue
          /\ isSelected' = AfterValue(newValue).isSelected
    /\ UNCHANGED <<excludeValue, focused, blurTimers, outsideAc>>

\* onFocus (lines 350-356)
InputFocus ==
    /\ ~focused
    /\ focused' = TRUE
    /\ IF ~isSelected /\ Len(inputValue) >= 1
       THEN /\ filteredAirports' = FilterAirports(inputValue)
            /\ showSuggestions' = (Len(FilterAirports(inputValue)) > 0)
       ELSE UNCHANGED <<filteredAirports, showSuggestions>>
    /\ UNCHANGED <<inputValue, isSelected, highlightedIndex, excludeValue,
                   blurTimers, outsideAc>>

\* handleBlur (lines 304-310): the timeout is set
InputBlur ==
    /\ focused
    /\ blurTimers < MaxBlurTimers
    /\ focused' = FALSE
    /\ blurTimers' = blurTimers + 1
    /\ UNCHANGED <<inputValue, isSelected, showSuggestions, highlightedIndex,
                   filteredAirports, excludeValue, outsideAc>>

\* the callback of that timeout (lines 306-308)
BlurTimeout ==
    /\ blurTimers > 0
    /\ blurTimers' = blurTimers - 1
    /\ showSuggestions' = FALSE
    /\ highlightedIndex' = -1
    /\ UNCHANGED <<inputValue, isSelected, filteredAirports, excludeValue,
                   focused, outsideAc>>

\* handleKeyDown, Backspace with an airport selected (lines 258-269)
KeyBackspace ==
    /\ focused
    /\ isSelected
    /\ inputValue' = << >>
    /\ isSelected' = FALSE
    /\ showSuggestions' = FALSE
    /\ highlightedIndex' = -1
    /\ UNCHANGED <<filteredAirports, excludeValue, focused, blurTimers, outsideAc>>

\* handleKeyDown, ArrowDown (lines 274-279)
KeyArrowDown ==
    /\ focused
    /\ showSuggestions
    /\ highlightedIndex' =
          ArrowDownIndex(highlightedIndex, Len(filteredAirports))
    /\ UNCHANGED <<inputValue, isSelected, showSuggestions, filteredAirports,
                   excludeValue, focused, blurTimers, outsideAc>>

\* handleKeyDown, ArrowUp (lines 281-286)
KeyArrowUp ==
    /\ focused
    /\ showSuggestions
    /\ highlightedIndex' =
          ArrowUpIndex(highlightedIndex, Len(filteredAirports))
    /\ UNCHANGED <<inputValue, isSelected, showSuggestions, filteredAirports,
                   excludeValue, focused, blurTimers, outsideAc>>

\* selectAirport (lines 240-253) on a focused input
SelectAirport(airport) ==
    /\ inputValue' = airport.displayText
    /\ isSelected' = TRUE
    /\ showSuggestions' = FALSE
    /\ highlightedIndex' = -1
    /\ UNCHANGED <<filteredAirports, excludeValue, focused, blurTimers, outsideAc>>

\* handleKeyDown, Enter (lines 288-293)
KeyEnter ==
    /\ focused
    /\ showSuggestions
    /\ highlightedIndex >= 0
    /\ highlightedIndex < Len(filteredAirports)
    /\ SelectAirport(filteredAirports[highlightedIndex + 1])

\* handleKeyDown, Escape (lines 295-299); blur() runs handleBlur
KeyEscape ==
    /\ focused
    /\ showSuggestions
    /\ blurTimers < MaxBlurTimers
    /\ showSuggestions' = FALSE
    /\ highlightedIndex' = -1
    /\ focused' = FALSE
    /\ blurTimers' = blurTimers + 1
    /\ UNCHANGED <<inputValue, isSelected, filteredAirports, excludeValue, outsideAc>>

\* onMouseDown of an option (lines 385-388).  On an input that lost the
\* focus, focus() at line 252 runs onFocus with the state of this render,
\* whose updates come after those of selectAirport.
MouseDownOption ==
    /\ showSuggestions
    /\ \E index \in 0..(Len(filteredAirports) - 1) :
          IF focused
          THEN SelectAirport(filteredAirports[index + 1])
          ELSE /\ inputValue' = filteredAirports[index + 1].displayText
               /\ isSelected' = TRUE
               /\ highlightedIndex' = -1
               /\ focused' = TRUE
               /\ IF ~isSelected /\ Len(inputValue) >= 1
                  THEN /\ filteredAirports' = FilterAirports(inputValue)
                       /\ showSuggestions' = (Len(FilterAirports(inputValue)) > 0)
                  ELSE /\ showSuggestions' = FALSE
                       /\ UNCHANGED filteredAirports
               /\ UNCHANGED <<excludeValue, blurTimers, outsideAc>>

\* onMouseEnter of an option (line 389)
MouseEnterOption ==
    /\ showSuggestions
    /\ \E index \in 0..(Len(filteredAirports) - 1) : highlightedIndex' = index
    /\ UNCHANGED <<inputValue, isSelected, showSuggestions, filteredAirports,
                   excludeValue, focused, blurTimers, outsideAc>>

\* handleClickOutside (lines 313-324)
ClickOutside ==
    /\ showSuggestions' = FALSE
    /\ highlightedIndex' = -1
    /\ UNCHANGED <<inputValue, isSelected, filteredAirports, excludeValue,
                   focused, blurTimers, outsideAc>>

NextAutocomplete ==
    \/ InputChange
    \/ InputFocus
    \/ InputBlur
    \/ BlurTimeout
    \/ KeyBackspace
    \/ KeyArrowDown
    \/ KeyArrowUp
    \/ KeyEnter
    \/ KeyEscape
    \/ MouseDownOption
    \/ MouseEnterOption
    \/ ClickOutside

SpecAutocomplete == InitAutocomplete /\ [][NextAutocomplete]_vars

\* a shown list is not empty and highlightedIndex is -1 or one of its indexes
ListShownValid ==
    showSuggestions =>
        /\ Len(filteredAirports) > 0
        /\ highlightedIndex >= -1
        /\ highlightedIndex <= Len(filteredAirports) - 1

\* ArrowDown on the last item gives index 0; ArrowUp on index 0 or -1 gives
\* the last index
ArrowsWrap ==
    /\ (KeyArrowDown /\ highlightedIndex = Len(filteredAirports) - 1)
          => highlightedIndex' = 0
    /\ (KeyArrowUp /\ highlightedIndex \in {-1, 0})
          => highlightedIndex' = Len(filteredAirports) - 1

\* C29: after any sequence of typing, focus, blur, keyboard and mouse events
\* a shown suggestion list is non-empty and highlightedIndex is -1 or a
\* valid index of it; ArrowDown on the last item wraps to 0 and ArrowUp on
\* index 0 or -1 wraps to the last item.
C29_HighlightWithinList == []ListShownValid /\ [][ArrowsWrap]_vars

\* the last of several suggestions is highlighted
C29_Witness ==
    /\ showSuggestions
    /\ Len(filteredAirports) >= 2
    /\ highlightedIndex = Len(filteredAirports) - 1
    /\ focused

-----------------------------------------------------------------------------
\* GlobeDisplay: the plane animation effect (GlobeDisplay.tsx, lines 163-256).
\* Time is in whole seconds; a requested animation frame runs one
\* FrameSeconds after the request.

\* how far the clock runs
MaxClock == 27

\* how many times the effect runs
MaxRuns == 2

\* const duration = 8000 (line 167)
AnimationSeconds == 8

\* the delay of the first start (line 249)
StartDelaySeconds == 2

\* the pause after a pass (lines 237 and 242)
PauseSeconds == 2

\* the delay between the clear and the restart (lines 236 and 241)
RestartDelaySeconds == 1

\* the time from requestAnimationFrame to its callback
FrameSeconds == 1

\* what a step of the animation leaves alone
outsideAnim == <<coreVars, apiVars, actionVars, formVars, acVars>>

\* the component is unmounted
Unmounted == -1

\* Math.min(elapsed / duration, 1) (lines 172 and 206)
Progress(elapsed) ==
    [num |-> Min(elapsed, AnimationSeconds), den |-> AnimationSeconds]

\* the updater of planePosition (lines 184 and 218)
PlaneAt(progress) == [t |-> "position", progress |-> progress]

\* the updater of animatedArc (lines 187-194 and 221-228)
ArcTo(progress) == [t |-> "arc", end |-> progress]

\* the pass of run r that is under way
LastPass(r) ==
    CHOOSE k \in DOMAIN passes :
        /\ passes[k].run = r
        /\ \A j \in DOMAIN passes : j > k => passes[j].run # r

\* a callback of a run whose cleanup has run changes the state of a
\* mounted component
Stale(r) == r # effectRun /\ effectRun # Unmounted

\* setPlanePosition and setAnimatedArc, called by a callback of run r; React
\* drops the update of an unmounted component
SetState(r, plane, arc) ==
    IF effectRun = Unmounted
    THEN UNCHANGED <<planePosition, animatedArc>>
    ELSE /\ planePosition' = plane
         /\ animatedArc' = arc

\* the body of the effect after the globeReady test (lines 167-249)
RunEffect(r) ==
    /\ effectRun' = r
    /\ startTime' = Append(startTime, clock)
    /\ timers' = timers \cup
          {[run |-> r, fn |-> "start", due |-> clock + StartDelaySeconds]}

\* requestAnimationFrame(fn), assigned to animationRef.current
RequestFrame(r, fn, since, pending) ==
    /\ frames' = pending \cup
          {[run |-> r, fn |-> fn, since |-> since, id |-> nextFrameId,
            due |-> clock + FrameSeconds]}
    /\ animationRef' = nextFrameId
    /\ nextFrameId' = nextFrameId + 1

\* the cleanup of the effect (lines 251-255)
FramesAfterCleanup ==
    IF animationRef # 0
    THEN {f \in frames : f.id # animationRef}
    ELSE frames

InitAnim ==
    /\ CoreIdle /\ ApiIdle /\ ActionIdle /\ FormIdle /\ AcIdle
    /\ AnimIdle

\* onGlobeReady (line 296): the effect runs for the first time
GlobeReady ==
    /\ ~globeReady
    /\ effectRun = 0
    /\ globeReady' = TRUE
    /\ RunEffect(1)
    /\ UNCHANGED <<clock, frames, animationRef, nextFrameId, planePosition,
                   animatedArc, passes, outsideAnim>>

\* flightData changes: the cleanup runs, then the effect again (line 256)
FlightDataChange ==
    /\ globeReady
    /\ effectRun >= 1
    /\ effectRun < MaxRuns
    /\ frames' = FramesAfterCleanup
    /\ RunEffect(Len(startTime) + 1)
    /\ UNCHANGED <<clock, globeReady, animationRef, nextFrameId,
                   planePosition, animatedArc, passes, outsideAnim>>

\* the component unmounts: the cleanup runs
Unmount ==
    /\ effectRun >= 1
    /\ frames' = FramesAfterCleanup
    /\ effectRun' = Unmounted
    /\ UNCHANGED <<clock, globeReady, startTime, timers, animationRef,
                   nextFrameId, planePosition, animatedArc, passes,
                   outsideAnim>>

\* time passes once every callback that is due has run
Tick ==
    /\ clock < MaxClock
    /\ \A c \in timers \cup frames : c.due > clock
    /\ clock' = clock + 1
    /\ UNCHANGED <<globeReady, effectRun, startTime, timers, frames,
                   animationRef, nextFrameId, planePosition, animatedArc,
                   passes, outsideAnim>>

\* a timeout that requests a frame begins a pass
BeginPass(r, kind) ==
    passes' = Append(passes, [run |-> r, kind |-> kind, at |-> clock,
                              calls |-> 0, first |-> -1, stale |-> 0])

\* the timeout of lines 247-249 and the one of line 236:
\* animationRef.current = requestAnimationFrame(animate)
StartTimeout ==
    \E c \in timers :
        /\ c.fn \in {"start", "loop"}
        /\ c.due = clock
        /\ timers' = timers \ {c}
        /\ RequestFrame(c.run, "animate", startTime[c.run], frames)
        /\ BeginPass(c.run, c.fn)
        /\ UNCHANGED <<clock, globeReady, effectRun, startTime,
                       planePosition, animatedArc, outsideAnim>>

\* the timeouts of lines 199-202 and 233-236: the plane and the arc are
\* cleared and the restart is scheduled
PauseTimeout ==
    \E c \in timers :
        /\ c.fn \in {"reset", "continue"}
        /\ c.due = clock
        /\ SetState(c.run, [t |-> "null"], [t |-> "null"])
        /\ timers' = (timers \ {c}) \cup
              {[run |-> c.run,
                fn |-> IF c.fn = "reset" THEN "restart" ELSE "loop",
                due |-> clock + RestartDelaySeconds]}
        /\ passes' = [passes EXCEPT ![LastPass(c.run)].stale =
                          IF Stale(c.run) THEN @ + 1 ELSE @]
        /\ UNCHANGED <<clock, globeReady, effectRun, startTime, frames,
                       animationRef, nextFrameId, outsideAnim>>

\* the timeout of lines 202-241: newStartTime = Date.now() and
\* animationRef.current = requestAnimationFrame(newAnimate)
RestartTimeout ==
    \E c \in timers :
        /\ c.fn = "restart"
        /\ c.due = clock
        /\ timers' = timers \ {c}
        /\ RequestFrame(c.run, "newAnimate", clock, frames)
        /\ BeginPass(c.run, "restart")
        /\ UNCHANGED <<clock, globeReady, effectRun, startTime,
                       planePosition, animatedArc, outsideAnim>>

\* animate (lines 170-244) and newAnimate (lines 204-239), called back for
\* a frame
AnimationFrame ==
    \E f \in frames :
        /\ f.due = clock
        /\ LET elapsed == clock - f.since
               progress == Progress(elapsed)
               k == LastPass(f.run)
           IN  IF progress.num < progress.den
               THEN /\ SetState(f.run, PlaneAt(progress), ArcTo(progress))
                    /\ RequestFrame(f.run, f.fn, f.since, frames \ {f})
                    /\ timers' = timers
                    /\ passes' = [passes EXCEPT
                          ![k].calls = @ + 1,
                          ![k].first = IF @ = -1 THEN progress.num ELSE @,
                          ![k].stale = IF Stale(f.run) THEN @ + 1 ELSE @]
               ELSE /\ frames' = frames \ {f}
                    /\ timers' = timers \cup
                          {[run |-> f.run,
                            fn |-> IF f.fn = "animate" THEN "reset"
                                                        ELSE "continue",
                            due |-> clock + PauseSeconds]}
                    /\ passes' = [passes EXCEPT ![k].calls = @ + 1]
                    /\ UNCHANGED <<animationRef, nextFrameId, planePosition,
                                   animatedArc>>
        /\ UNCHANGED <<clock, globeReady, effectRun, startTime, outsideAnim>>

NextAnim ==
    \/ GlobeReady
    \/ FlightDataChange
    \/ Unmount
    \/ Tick
    \/ StartTimeout
    \/ PauseTimeout
    \/ RestartTimeout
    \/ AnimationFrame

SpecAnim == InitAnim /\ [][NextAnim]_vars

\* the pass has called its frame callback, and the first call showed the
\* plane within one frame of progress 0
FullPass(pass) ==
    pass.calls >= 1 => pass.first \in 0..FrameSeconds

\* C24: every restart of the plane animation is a full pass: each pass begun
\* after a clear shows the plane from progress near 0, so the next full pass
\* follows the clear by the 1-second restart delay.
C24_EveryRestartIsFullPass ==
    \A k \in DOMAIN passes :
        passes[k].kind # "start" => FullPass(passes[k])

\* the runs of the effect that still have a timeout or a frame pending
RunningLoops == {c.run : c \in timers} \cup {f.run : f \in frames}

\* C26: once the effect is cleaned up no callback of the old run updates
\* planePosition or animatedArc, and at most one animation loop is running.
C26_CleanupStopsOldRun ==
    /\ \A k \in DOMAIN passes : passes[k].stale = 0
    /\ Cardinality(RunningLoops) <= 1

====
